---- MODULE Spec2Model ----
(***************************************************************************)
(* Semantic retrieval and relationship engine of the knowledge base:       *)
(*   - GraphService._find_semantic_relationships  (SpecGraph)              *)
(*   - EmbeddingService.store_document_embeddings (SpecEmbed)              *)
(*   - EmbeddingService.chunk_text                (SpecChunk)              *)
(*   - semantic_search                            (SpecSearch)             *)
(*   - the streamed answers and reviews           (SpecStream)             *)
(*   - the embedding model of one process         (SpecProcess)            *)
(* Each specification drives its own group of variables and leaves the     *)
(* other groups untouched.                                                 *)
(***************************************************************************)
EXTENDS Integers, Sequences, FiniteSets, TLC

VARIABLES
    \* ---- _find_semantic_relationships (graph_service.py 127-321)
    documents,        \* candidate documents, as the list of their ids
    repositories,     \* candidate repositories, as the list of their ids
    min_confidence,   \* the threshold, in half units (2 = 1.0)
    edges,            \* the edge list being built
    seen_edges,       \* set of edge keys
    gpc,              \* the pass: doc_repo, doc_doc, repo_repo, done
    gi,               \* index of the current entity in its list
    phase,            \* fetch (query + filter running), iter_end (body left)
    results,          \* the filtered, sliced result list of the iteration
    raised,           \* an exception left the function
    discovered,       \* history: <<source node, target node>> pairs a pass examined
    queries,          \* history: number of iterations started
    failed_any,       \* history: some iteration has failed
    \* ---- store_document_embeddings (embedding_service.py 120-212)
    content,          \* per document: the number of chunks its content_md yields
    version,          \* per document: how often content_md has been edited
    vecs,             \* the index: entries [doc, idx, ver], id "{doc}_{idx}"
    rows,             \* Embedding rows per document as the session sees them
    committed,        \* Embedding rows per document as committed
    epc,              \* per caller: the place in store_document_embeddings
    frame,            \* per caller: document, force_regenerate, chunks, i, ret
    snapshot,         \* history: per caller, vecs and rows when the call began
    last_call,        \* history: the call that ended last, if nothing came since
    \* ---- chunk_text (embedding_service.py 45-84)
    text,             \* the text, a sequence of characters
    chunk_size,
    overlap,
    start,            \* the window start
    chunks,           \* the chunks appended so far
    cpc,              \* loop, done
    cuts,             \* history: <<start, end>> of each window, in order
    returned,         \* the returned list
    \* ---- semantic_search (api/v1/search.py 57-224)
    limit,            \* the limit parameter
    filters,          \* doc_type, author, date_from, date_to, tags (None: not given)
    raw_results,      \* what search_similar returned, best match first
    search_results,   \* the results collected: [rank, similarity_score]
    si,               \* number of raw results the loop has taken
    spc,              \* scan, rag, responded
    ai_answer,        \* the answer of the response, None for null
    status,           \* 0 before the response, then 200 or 500
    failure,          \* what raised when status is 500
    rag_call,         \* history: none, skipped, off, answered, raised
    \* ---- streamed answers and reviews (search.py 323-481, review.py 91-177,
    \*      ai_review_service.py 40-378 and 606-696)
    path,             \* which producer runs
    ppc,              \* begin, reading, ended, closed
    events,           \* the events sent to the consumer, in order
    received,         \* number of chunks read from the backend
    backend,          \* none, running, stalled, hung_after_eof, exited_ok,
                      \* exited_fail, closed
    sink,             \* the consumer's connection: open, closed
    waited,           \* time the producer has waited on a silent backend
    outcome,          \* none, done, error
    \* ---- the embedding model and index client of one process
    \*      (embedding_service.py 23-43 and 372-383, graph_service.py 17-19,
    \*      code_ingestion_service.py 42-51)
    embedding_service,  \* _embedding_service: 0 for None, else the instance
    loads,            \* number of times an embedding model has been loaded
    served,           \* history: [kind, instance] of each request, in order
    \* ---- import and review jobs (api/v1/imports.py 52-135,
    \*      import_service.py 32-160, api/v1/review.py 78-89 and 183-222,
    \*      ai_review_service.py 404-497)
    job_kind,         \* import, review
    recursive,        \* the request's recursive flag (imports)
    provider,         \* the provider AIReviewService has chosen (reviews)
    jpc,              \* request, rejected, queued, then the place in the background task
    job,              \* the job record as the session of the task holds it
    job_db,           \* the job record as committed: what a poll of the status reads
    response,         \* what the endpoint returned: None, pending, or an HTTP error
    imported_doc_ids, \* the list imported_doc_ids; 0 is the main document
    failed_imports,   \* the list failed_imports, as the documents it names
    linked_ids,       \* number of linked documents the main document names
    linked_done,      \* number of linked documents the loop has taken
    doc_id_found,     \* history: extract_doc_id returned an id
    internal_exception,\* history: the except branch of the task has run
    \* ---- build_knowledge_graph (graph_service.py 21-125)
    collection_id,    \* None, known, unknown
    include,          \* the flags include_docs, include_code, include_sheets
    db_documents,     \* the documents of the database: per document its number of sheets
    db_repositories,  \* number of repositories of the database
    collection,       \* the known collection: how many of the documents and repositories it holds
    kg_documents,     \* the list documents of the call
    kg_repositories,  \* the list repositories of the call, as its length
    nodes,            \* the list nodes
    kg_edges,         \* the list edges of the call
    kpc,              \* start, documents, repositories, semantic, returned, raised
    ki,               \* index of the loop the call is in
    payload,          \* the returned dict; <<>> before the return
    \* ---- batch_process_documents (embedding_service.py 316-369), which
    \*      calls store_document_embeddings as caller p1
    batch_documents,  \* the list documents of the batch
    batch_force,      \* force_regenerate of the batch
    batch_stats,      \* the dict stats
    bi,               \* number of documents the loop has finished
    bpc,              \* idle, loop, returned
    attempts,         \* history: per document, the calls made for it in this batch
    raised_docs,      \* history: the documents whose call raised in this batch
    \* ---- the similarity of a distance (search.py 135-136, 149 and 358,
    \*      graph_service.py 167-172)
    dist,             \* the distance the index returned, in units of 2^-FractionBits
    sims,             \* per component that has computed it: the similarity and what it reports
    \* ---- csv_to_markdown_table (google_sheets_service.py 134-177)
    csv_data,         \* the rows csv.reader reads from the CSV text
    max_rows,         \* the max_rows argument
    reader_raises,    \* csv.reader rejects the text
    table,            \* the returned table: its lines and the truncation notice
    mpc,              \* "call" or "done"
    \* ---- the temporary file of a streamed generation (search.py 390-427,
    \*      ai_review_service.py 73-166)
    calls_done,       \* number of streaming calls that have ended
    call_path,        \* none, answer, review
    fpc,              \* idle, written, reading, ended
    temp_file,        \* the file of the current call (0: none)
    disk,             \* the temporary files in existence
    line_count,       \* lines read from the subprocess
    ending            \* none, success, exit_fail, not_started, closed

gvars == <<documents, repositories, min_confidence, edges, seen_edges, gpc, gi,
           phase, results, raised, discovered, queries, failed_any>>

evars == <<content, version, vecs, rows, committed, epc, frame, snapshot, last_call>>

cvars == <<text, chunk_size, overlap, start, chunks, cpc, cuts, returned>>

svars == <<limit, filters, raw_results, search_results, si, spc, ai_answer,
           status, failure, rag_call>>

tvars == <<path, ppc, events, received, backend, sink, waited, outcome>>

ivars == <<embedding_service, loads, served>>

jvars == <<job_kind, recursive, provider, jpc, job, job_db, response,
           imported_doc_ids, failed_imports, linked_ids, linked_done, doc_id_found,
           internal_exception>>

kvars == <<collection_id, include, db_documents, db_repositories, collection,
           kg_documents, kg_repositories, nodes, kg_edges, kpc, ki,
           payload>>

bvars == <<batch_documents, batch_force, batch_stats, bi, bpc, attempts,
           raised_docs>>

nvars == <<dist, sims>>

mvars == <<csv_data, max_rows, reader_raises, table, mpc>>

fvars == <<calls_done, call_path, fpc, temp_file, disk, line_count, ending>>

vars == <<gvars, evars, cvars, svars, tvars, ivars, jvars, kvars, bvars, nvars, mvars, fvars>>

\* What the actions of one component leave alone.
nongraph == <<evars, cvars, svars, tvars, ivars, jvars, kvars, bvars, nvars, mvars, fvars>>
nonembed == <<gvars, cvars, svars, tvars, ivars, jvars, kvars, bvars, nvars, mvars, fvars>>
nonchunk == <<gvars, evars, svars, tvars, ivars, jvars, kvars, bvars, nvars, mvars, fvars>>
nonsearch == <<gvars, evars, cvars, tvars, ivars, jvars, kvars, bvars, nvars, mvars, fvars>>
nonstream == <<gvars, evars, cvars, svars, ivars, jvars, kvars, bvars, nvars, mvars, fvars>>
nonprocess == <<gvars, evars, cvars, svars, tvars, jvars, kvars, bvars, nvars, mvars, fvars>>
nonjob == <<gvars, evars, cvars, svars, tvars, ivars, kvars, bvars, nvars, mvars, fvars>>
nonbuild == <<gvars, evars, cvars, svars, tvars, ivars, jvars, bvars, nvars, mvars, fvars>>
nonbatch == <<gvars, evars, cvars, svars, tvars, ivars, jvars, kvars, nvars, mvars, fvars>>

(***************************************************************************)
(* Bounds.                                                                 *)
(***************************************************************************)
\* Length of the slice of code results a pass examines; stands for [:10].
SliceCode == 2
\* Length of the slice of document results a pass examines; stands for [:5].
SliceDocs == 2
\* Most chunks the content of a document yields.
MaxChunks == 2
\* Most edits of one document's content.
MaxEdits == 1
\* Longest text given to chunk_text.
MaxTextLen == 6
\* Largest chunk_size and largest overlap given to chunk_text.
MaxChunkSize == 5
\* Most results search_similar returns to semantic_search.
MaxRaw == 3
\* Largest limit given to semantic_search.
MaxLimit == 2
\* Most chunks a generation backend produces.
MaxContent == 2
\* Longest time followed while a producer waits on a silent backend.
MaxWait == 3
\* Most requests one process serves.
MaxRequests == 3
\* linked documents of one imported document
MaxLinked == 3
\* documents and repositories of the database build_knowledge_graph reads
MaxGraphDocs == 2
MaxGraphRepos == 1
\* sheets of one document
MaxSheets == 1
\* edges _find_semantic_relationships returns to build_knowledge_graph
MaxSemantic == 2
\* significand bits of the floating-point numbers, and the bits after the
\* binary point of the smallest distance
Precision == 3
FractionBits == 4

(***************************************************************************)
(* Helpers.                                                                *)
(***************************************************************************)
Max(a, b) == IF a >= b THEN a ELSE b

RECURSIVE Gcd(_, _)
Gcd(a, b) == IF b = 0 THEN a ELSE Gcd(b, a % b)

RECURSIVE SumSeq(_)
SumSeq(s) == IF s = <<>> THEN 0 ELSE Head(s) + SumSeq(Tail(s))

InList(list, x) == \E k \in 1..Len(list) : list[k] = x

(***************************************************************************)
(* The index as the relationship engine sees it.  Ids are uuid4 strings in *)
(* the program (models/document.py:40, models/code_repository.py:33); here *)
(* small numbers ordered as the strings are, documents and repositories    *)
(* disjoint.  Id 3 and id 13 are indexed but never candidates.             *)
(* Distances are the index's distances 0.0, 1.0 and 3.0 (beyond the        *)
(* nominal range); similarities and confidences are counted in halves, so  *)
(* 2 stands for 1.0.                                                       *)
(***************************************************************************)
DocIds == {1, 2, 3}
RepoIds == {11, 12, 13}
Distances == {0, 1, 3}
MinConfidences == {1, 2}
\* The candidate lists a call is given: up to three entities.
Candidates ==
    {[docs |-> <<>>, repos |-> <<>>],
     [docs |-> <<1, 2>>, repos |-> <<>>],
     [docs |-> <<>>, repos |-> <<11, 12>>],
     [docs |-> <<1, 2>>, repos |-> <<11>>],
     [docs |-> <<1>>, repos |-> <<11, 12>>]}

\* One formatted result of search_similar: the metadata carries document_id
\* (kind "doc") or repository_id (kind "code").
Hits == [kind : {"doc"}, id : DocIds, distance : Distances]
        \cup [kind : {"code"}, id : RepoIds, distance : Distances]

\* max(0, 1 - distance / 2.0), in halves.
Similarity(distance) == Max(0, 2 - distance)

\* sum(scores) / len(scores) as a reduced fraction <<num, den>> of halves.
Mean(scores) ==
    LET s == SumSeq(scores)
        n == Len(scores)
        g == Gcd(s, n)
    IN  <<s \div g, n \div g>>

DocNode(id) == <<"doc", id>>
RepoNode(id) == <<"repo", id>>

RelatedEdge(src, tgt, conf) ==
    [source |-> src, target |-> tgt, type |-> "related", confidence |-> conf]

\* similarity < min_confidence
BelowThresholdNever(similarity, mc) == FALSE
BelowThreshold(similarity, mc) == similarity < mc

\* any(x.id == id for x in candidates)
InCandidatesAlways(candidates, id) == TRUE
InCandidates(candidates, id) == InList(candidates, id)

\* doc2_id == doc1.id, repo2_id == repo1.id
IsSelfNever(a, b) == FALSE
IsSelf(a, b) == a = b

\* tuple(sorted([a, b]))
EdgeKeyUnsorted(a, b) == <<a, b>>
EdgeKey(a, b) == IF a <= b THEN <<a, b>> ELSE <<b, a>>

\* The comprehension that keeps code results / document-only results.
PassesFilter(pass, hit) ==
    IF pass = "doc_doc" THEN hit.kind = "doc" ELSE hit.kind = "code"

SliceOf(pass) == IF pass = "doc_doc" THEN SliceDocs ELSE SliceCode

\* repo_scores[repo_id].append(similarity), the dict kept in insertion order.
AppendScore(repo_scores, id, similarity) ==
    IF \E k \in 1..Len(repo_scores) : repo_scores[k].id = id
    THEN [k \in 1..Len(repo_scores) |->
            IF repo_scores[k].id = id
            THEN [id |-> id, scores |-> Append(repo_scores[k].scores, similarity)]
            ELSE repo_scores[k]]
    ELSE Append(repo_scores, [id |-> id, scores |-> <<similarity>>])

\* Doc-to-repo pass, the grouping loop.
RECURSIVE ScoreDocRepo(_, _, _)
ScoreDocRepo(res, mc, repo_scores) ==
    IF res = <<>> THEN repo_scores
    ELSE LET r == Head(res)
             similarity == Similarity(r.distance)
         IN  IF BelowThreshold(similarity, mc)
             THEN ScoreDocRepo(Tail(res), mc, repo_scores)
             ELSE ScoreDocRepo(Tail(res), mc, AppendScore(repo_scores, r.id, similarity))

\* Doc-to-repo pass, the edge loop; acc is [seen, edges].
RECURSIVE EmitDocRepo(_, _, _, _)
EmitDocRepo(doc, repo_scores, repos, acc) ==
    IF repo_scores = <<>> THEN acc
    ELSE LET e == Head(repo_scores)
             edge_key == <<doc, e.id>>
         IN  IF ~InCandidates(repos, e.id) \/ edge_key \in acc.seen
             THEN EmitDocRepo(doc, Tail(repo_scores), repos, acc)
             ELSE EmitDocRepo(doc, Tail(repo_scores), repos,
                    [seen |-> acc.seen \cup {edge_key},
                     edges |-> Append(acc.edges,
                        RelatedEdge(DocNode(doc), RepoNode(e.id), Mean(e.scores)))])

\* Doc-to-doc pass, the result loop; acc is [seen, edges].
RECURSIVE EmitDocDoc(_, _, _, _, _)
EmitDocDoc(doc1, res, docs, mc, acc) ==
    IF res = <<>> THEN acc
    ELSE LET r == Head(res)
             doc2_id == r.id
             similarity == Similarity(r.distance)
             edge_key == EdgeKey(doc1, doc2_id)
         IN  IF \/ IsSelf(doc2_id, doc1)
                \/ ~InCandidates(docs, doc2_id)
                \/ BelowThreshold(similarity, mc)
                \/ edge_key \in acc.seen
             THEN EmitDocDoc(doc1, Tail(res), docs, mc, acc)
             ELSE EmitDocDoc(doc1, Tail(res), docs, mc,
                    [seen |-> acc.seen \cup {edge_key},
                     edges |-> Append(acc.edges,
                        RelatedEdge(DocNode(doc1), DocNode(doc2_id), <<similarity, 1>>))])

\* Repo-to-repo pass, the grouping loop.
RECURSIVE ScoreRepoRepo(_, _, _, _, _)
ScoreRepoRepo(repo1, res, repos, mc, repo_scores) ==
    IF res = <<>> THEN repo_scores
    ELSE LET r == Head(res)
             repo2_id == r.id
             similarity == Similarity(r.distance)
         IN  IF \/ IsSelf(repo2_id, repo1)
                \/ ~InCandidates(repos, repo2_id)
                \/ BelowThreshold(similarity, mc)
             THEN ScoreRepoRepo(repo1, Tail(res), repos, mc, repo_scores)
             ELSE ScoreRepoRepo(repo1, Tail(res), repos, mc,
                    AppendScore(repo_scores, repo2_id, similarity))

\* Repo-to-repo pass, the edge loop; acc is [seen, edges].
RECURSIVE EmitRepoRepo(_, _, _)
EmitRepoRepo(repo1, repo_scores, acc) ==
    IF repo_scores = <<>> THEN acc
    ELSE LET e == Head(repo_scores)
             edge_key == EdgeKey(repo1, e.id)
         IN  IF edge_key \in acc.seen
             THEN EmitRepoRepo(repo1, Tail(repo_scores), acc)
             ELSE EmitRepoRepo(repo1, Tail(repo_scores),
                    [seen |-> acc.seen \cup {edge_key},
                     edges |-> Append(acc.edges,
                        RelatedEdge(RepoNode(repo1), RepoNode(e.id), Mean(e.scores)))])

(***************************************************************************)
(* Position in the three for-loops.                                        *)
(***************************************************************************)
NextPass(pass) ==
    CASE pass = "doc_repo" -> "doc_doc"
      [] pass = "doc_doc" -> "repo_repo"
      [] OTHER -> "done"

ListOf(pass, docs, repos) == IF pass = "repo_repo" THEN repos ELSE docs

\* The first iteration at or after the start of `pass`.
RECURSIVE Enter(_, _, _)
Enter(pass, docs, repos) ==
    IF pass = "done" THEN [pc |-> "done", i |-> 0]
    ELSE IF Len(ListOf(pass, docs, repos)) > 0 THEN [pc |-> pass, i |-> 1]
    ELSE Enter(NextPass(pass), docs, repos)

\* The iteration after iteration i of `pass`.
After(pass, i, docs, repos) ==
    IF i < Len(ListOf(pass, docs, repos)) THEN [pc |-> pass, i |-> i + 1]
    ELSE Enter(NextPass(pass), docs, repos)

Entity == ListOf(gpc, documents, repositories)[gi]

SourceNode == IF gpc = "repo_repo" THEN RepoNode(Entity) ELSE DocNode(Entity)

TargetNode(pass, id) == IF pass = "doc_doc" THEN DocNode(id) ELSE RepoNode(id)

\* History: the targets the pass of the current entity examined at or above
\* the threshold, candidates other than the entity itself.
Examined ==
    {<<SourceNode, TargetNode(gpc, results[k].id)>> : k \in
        {j \in 1..Len(results) :
            /\ InList(ListOf(IF gpc = "doc_doc" THEN "doc_doc" ELSE "repo_repo",
                             documents, repositories), results[j].id)
            /\ TargetNode(gpc, results[j].id) # SourceNode
            /\ Similarity(results[j].distance) >= min_confidence}}

(***************************************************************************)
(* Actions of _find_semantic_relationships.                                *)
(***************************************************************************)
GraphInit ==
    /\ \E c \in Candidates : documents = c.docs /\ repositories = c.repos
    /\ min_confidence \in MinConfidences
    /\ edges = <<>>
    /\ seen_edges = {}
    /\ LET p == Enter("doc_repo", documents, repositories)
       IN  /\ gpc = p.pc
           /\ gi = p.i
           /\ queries = IF p.pc = "done" THEN 0 ELSE 1
    /\ phase = "fetch"
    /\ results = <<>>
    /\ raised = FALSE
    /\ discovered = {}
    /\ failed_any = FALSE

\* search_similar returns its next result, best match first; the
\* comprehension keeps it when it is of the pass's kind and the slice is
\* not full yet.
SearchSimilarYield(hit) ==
    /\ gpc # "done"
    /\ phase = "fetch"
    /\ results # <<>> => hit.distance >= results[Len(results)].distance
    /\ results' = IF PassesFilter(gpc, hit) /\ Len(results) < SliceOf(gpc)
                  THEN Append(results, hit)
                  ELSE results
    /\ UNCHANGED <<documents, repositories, min_confidence, edges, seen_edges,
                   gpc, gi, phase, raised, discovered, queries, failed_any>>
    /\ UNCHANGED nongraph

\* except Exception: logger.warning(...); continue
OnQueryErrorAbort ==
    /\ phase' = "iter_end"
    /\ gpc' = "done"
    /\ raised' = TRUE
    /\ UNCHANGED <<gi>>
OnQueryError ==
    /\ phase' = "iter_end"
    /\ UNCHANGED <<gpc, gi, raised>>

\* search_similar, or the metadata handling of the comprehension, raises.
SearchSimilarFail ==
    /\ gpc # "done"
    /\ phase = "fetch"
    /\ results' = <<>>
    /\ failed_any' = TRUE
    /\ OnQueryError
    /\ UNCHANGED <<documents, repositories, min_confidence, edges, seen_edges,
                   discovered, queries>>
    /\ UNCHANGED nongraph

\* The body of one doc-to-repo iteration after the comprehension.
ProcessDocRepo ==
    /\ gpc = "doc_repo"
    /\ phase = "fetch"
    /\ LET repo_scores == ScoreDocRepo(results, min_confidence, <<>>)
           out == EmitDocRepo(Entity, repo_scores, repositories,
                              [seen |-> seen_edges, edges |-> edges])
       IN  /\ edges' = out.edges
           /\ seen_edges' = out.seen
    /\ discovered' = discovered \cup Examined
    /\ phase' = "iter_end"
    /\ UNCHANGED <<documents, repositories, min_confidence, gpc, gi, results,
                   raised, queries, failed_any>>
    /\ UNCHANGED nongraph

\* The body of one doc-to-doc iteration after the comprehension.
ProcessDocDoc ==
    /\ gpc = "doc_doc"
    /\ phase = "fetch"
    /\ LET out == EmitDocDoc(Entity, results, documents, min_confidence,
                             [seen |-> seen_edges, edges |-> edges])
       IN  /\ edges' = out.edges
           /\ seen_edges' = out.seen
    /\ discovered' = discovered \cup Examined
    /\ phase' = "iter_end"
    /\ UNCHANGED <<documents, repositories, min_confidence, gpc, gi, results,
                   raised, queries, failed_any>>
    /\ UNCHANGED nongraph

\* The body of one repo-to-repo iteration after the comprehension.
ProcessRepoRepo ==
    /\ gpc = "repo_repo"
    /\ phase = "fetch"
    /\ LET repo_scores == ScoreRepoRepo(Entity, results, repositories,
                                        min_confidence, <<>>)
           out == EmitRepoRepo(Entity, repo_scores,
                               [seen |-> seen_edges, edges |-> edges])
       IN  /\ edges' = out.edges
           /\ seen_edges' = out.seen
    /\ discovered' = discovered \cup Examined
    /\ phase' = "iter_end"
    /\ UNCHANGED <<documents, repositories, min_confidence, gpc, gi, results,
                   raised, queries, failed_any>>
    /\ UNCHANGED nongraph

\* The for statement: the next entity, the next pass, or return edges.
NextIteration ==
    /\ gpc # "done"
    /\ phase = "iter_end"
    /\ LET p == After(gpc, gi, documents, repositories)
       IN  /\ gpc' = p.pc
           /\ gi' = p.i
           /\ queries' = IF p.pc = "done" THEN queries ELSE queries + 1
    /\ phase' = "fetch"
    /\ results' = <<>>
    /\ UNCHANGED <<documents, repositories, min_confidence, edges, seen_edges,
                   raised, discovered, failed_any>>
    /\ UNCHANGED nongraph

(***************************************************************************)
(* store_document_embeddings.  The content of a document is kept as the    *)
(* number of chunks chunk_text cuts title + content into, 0 for a content  *)
(* that is empty after strip().  An index entry remembers the version of   *)
(* the content its chunk was cut from.                                     *)
(***************************************************************************)
\* Document "a" is edited and re-indexed; document "b" keeps a content of
\* one chunk and shares the index, the table and the session.
EmbedDocs == {"a", "b"}
EditedDocs == {"a"}
Callers == {"p1"}

\* Two runs at the same time, each for its own document and with its own
\* session.
Workers == {"q1", "q2"}
WorkerDoc == [p \in Workers |-> IF p = "q1" THEN "a" ELSE "b"]
AllCallers == Callers \cup Workers

\* The documents whose pending rows lie in the session of caller p.
SessionDocs(p) == IF p \in Workers THEN {WorkerDoc[p]} ELSE EmbedDocs

NoFrame == [doc |-> "", force |-> FALSE, chunks |-> 0, i |-> 0, ret |-> -1]
NoSnapshot == [vecs |-> {}, rows |-> 0]
NoCall == [doc |-> "", force |-> FALSE, outcome |-> "none", ret |-> -1]

VecsOf(index, d) == {v \in index : v.doc = d}

\* ids=[f"{document.id}_{i}"]
VectorIdIndexOnly(d, i) == <<"_", i>>
VectorId(d, i) == <<d, "_", i>>

HasId(index, d, idx) == \E v \in index : VectorId(v.doc, v.idx) = VectorId(d, idx)

\* if not force_regenerate: existing_count = ...count(); if existing_count > 0
AlreadyIndexedNever(force, existing_count) == FALSE
AlreadyIndexed(force, existing_count) == ~force /\ existing_count > 0

EmbedInit ==
    /\ content \in [EmbedDocs -> 0..MaxChunks]
    /\ \A d \in EmbedDocs \ EditedDocs : content[d] = 1
    /\ version = [d \in EmbedDocs |-> 0]
    /\ vecs = {}
    /\ rows = [d \in EmbedDocs |-> 0]
    /\ committed = [d \in EmbedDocs |-> 0]
    /\ epc = [p \in AllCallers |-> "idle"]
    /\ frame = [p \in AllCallers |-> NoFrame]
    /\ snapshot = [p \in AllCallers |-> NoSnapshot]
    /\ last_call = NoCall

AllIdle == \A p \in AllCallers : epc[p] = "idle"

\* The document's content_md is rewritten between calls.
EditContent(d, n) ==
    /\ AllIdle
    /\ version[d] < MaxEdits
    /\ n # content[d]
    /\ content' = [content EXCEPT ![d] = n]
    /\ version' = [version EXCEPT ![d] = @ + 1]
    /\ last_call' = NoCall
    /\ UNCHANGED <<vecs, rows, committed, epc, frame, snapshot>>
    /\ UNCHANGED nonembed

\* The session is closed between calls: what was not committed is rolled back.
SessionClose ==
    /\ AllIdle
    /\ rows # committed
    /\ rows' = committed
    /\ last_call' = NoCall
    /\ UNCHANGED <<content, version, vecs, committed, epc, frame, snapshot>>
    /\ UNCHANGED nonembed

\* Entry and the check for existing embeddings.
StoreCall(p, d, force) ==
    /\ epc[p] = "idle"
    /\ frame' = [frame EXCEPT ![p] =
          [doc |-> d, force |-> force, chunks |-> 0, i |-> 0,
           ret |-> IF AlreadyIndexed(force, rows[d]) THEN rows[d] ELSE -1]]
    /\ epc' = [epc EXCEPT ![p] =
          IF AlreadyIndexed(force, rows[d]) THEN "returned"
          ELSE IF force THEN "delete" ELSE "content"]
    /\ snapshot' = [snapshot EXCEPT ![p] = [vecs |-> VecsOf(vecs, d), rows |-> rows[d]]]
    /\ UNCHANGED <<content, version, vecs, rows, committed, last_call>>
    /\ UNCHANGED nonembed

\* db.query(Embedding)...delete(), then collection.delete(where=...), whose
\* exception is logged and swallowed.
DeleteExisting(p, index_ok) ==
    /\ epc[p] = "delete"
    /\ rows' = [rows EXCEPT ![frame[p].doc] = 0]
    /\ vecs' = IF index_ok THEN vecs \ VecsOf(vecs, frame[p].doc) ELSE vecs
    /\ epc' = [epc EXCEPT ![p] = "content"]
    /\ UNCHANGED <<content, version, committed, frame, snapshot, last_call>>
    /\ UNCHANGED nonembed

\* content.strip() empty: return 0; else chunk_text(title_context + content).
ReadContent(p) ==
    /\ epc[p] = "content"
    /\ IF content[frame[p].doc] = 0
       THEN /\ frame' = [frame EXCEPT ![p].ret = 0]
            /\ epc' = [epc EXCEPT ![p] = "returned"]
       ELSE /\ frame' = [frame EXCEPT ![p].chunks = content[frame[p].doc]]
            /\ epc' = [epc EXCEPT ![p] = "embed"]
    /\ UNCHANGED <<content, version, vecs, rows, committed, snapshot, last_call>>
    /\ UNCHANGED nonembed

\* generate_embeddings(chunks), which re-raises what the model raises.
GenerateEmbeddings(p, ok) ==
    /\ epc[p] = "embed"
    /\ epc' = [epc EXCEPT ![p] = IF ok THEN "store" ELSE "raised"]
    /\ UNCHANGED <<content, version, vecs, rows, committed, frame, snapshot, last_call>>
    /\ UNCHANGED nonembed

\* One round of the loop: db.add(db_embedding), then collection.add(ids=
\* ["{document.id}_{i}"], ...).  An add under an id the index already holds
\* leaves the old entry (or raises, as any add may).
StoreChunk(p, add_ok) ==
    /\ epc[p] = "store"
    /\ frame[p].i < frame[p].chunks
    /\ LET d == frame[p].doc
           i == frame[p].i
       IN  /\ rows' = [rows EXCEPT ![d] = @ + 1]
           /\ vecs' = IF add_ok /\ ~HasId(vecs, d, i)
                      THEN vecs \cup {[doc |-> d, idx |-> i, ver |-> version[d]]}
                      ELSE vecs
    /\ IF add_ok
       THEN /\ frame' = [frame EXCEPT ![p].i = @ + 1]
            /\ UNCHANGED epc
       ELSE /\ epc' = [epc EXCEPT ![p] = "raised"]
            /\ UNCHANGED frame
    /\ UNCHANGED <<content, version, committed, snapshot, last_call>>
    /\ UNCHANGED nonembed

\* db.commit(); return chunk_count
CommitAndReturn(p) ==
    /\ epc[p] = "store"
    /\ frame[p].i = frame[p].chunks
    /\ committed' = [d \in EmbedDocs |->
          IF d \in SessionDocs(p) THEN rows[d] ELSE committed[d]]
    /\ frame' = [frame EXCEPT ![p].ret = frame[p].i]
    /\ epc' = [epc EXCEPT ![p] = "returned"]
    /\ UNCHANGED <<content, version, vecs, rows, snapshot, last_call>>
    /\ UNCHANGED nonembed

\* The caller has the return value or the exception.
HandBack(p) ==
    /\ epc[p] \in {"returned", "raised"}
    /\ last_call' = [doc |-> frame[p].doc, force |-> frame[p].force,
                     outcome |-> epc[p], ret |-> frame[p].ret]
    /\ epc' = [epc EXCEPT ![p] = "idle"]
    /\ frame' = [frame EXCEPT ![p] = NoFrame]
    /\ snapshot' = [snapshot EXCEPT ![p] = NoSnapshot]
    /\ UNCHANGED <<content, version, vecs, rows, committed>>

CallEnds(p) ==
    /\ HandBack(p)
    /\ UNCHANGED nonembed

EmbedNext ==
    \/ \E d \in EditedDocs, n \in 0..MaxChunks : EditContent(d, n)
    \/ SessionClose
    \/ \E p \in Callers, d \in EmbedDocs, force \in BOOLEAN : StoreCall(p, d, force)
    \/ \E p \in Callers, index_ok \in BOOLEAN : DeleteExisting(p, index_ok)
    \/ \E p \in Callers : ReadContent(p)
    \/ \E p \in Callers, ok \in BOOLEAN : GenerateEmbeddings(p, ok)
    \/ \E p \in Callers, add_ok \in BOOLEAN : StoreChunk(p, add_ok)
    \/ \E p \in Callers : CommitAndReturn(p)
    \/ \E p \in Callers : CallEnds(p)

\* Two runs of store_document_embeddings at the same time, for two different
\* documents, each run in a session of its own.
ConcurrentNext ==
    \/ \E p \in Workers, force \in BOOLEAN : StoreCall(p, WorkerDoc[p], force)
    \/ \E p \in Workers, index_ok \in BOOLEAN : DeleteExisting(p, index_ok)
    \/ \E p \in Workers : ReadContent(p)
    \/ \E p \in Workers, ok \in BOOLEAN : GenerateEmbeddings(p, ok)
    \/ \E p \in Workers, add_ok \in BOOLEAN : StoreChunk(p, add_ok)
    \/ \E p \in Workers : CommitAndReturn(p)
    \/ \E p \in Workers : CallEnds(p)

(***************************************************************************)
(* chunk_text.  A text is a sequence of characters; indexes are Python's,  *)
(* from 0, and a slice takes negative bounds from the end as Python does.  *)
(***************************************************************************)
\* The characters of a text: a letter, a sentence terminator and a space.
Chars == {"a", ".", " "}

Texts == UNION {[1..n -> Chars] : n \in 0..MaxTextLen}

\* Iterations after which the model stops following a loop that has not ended.
MaxIterations == MaxTextLen + 1

Min(a, b) == IF a <= b THEN a ELSE b

\* Python's s[lo:hi].
PySlice(s, lo, hi) ==
    LET n == Len(s)
        l == IF lo < 0 THEN Max(n + lo, 0) ELSE Min(lo, n)
        h == IF hi < 0 THEN Max(n + hi, 0) ELSE Min(hi, n)
    IN  IF l >= h THEN <<>> ELSE SubSeq(s, l + 1, h)

\* Python's s.rfind(c + ' '): the highest index of the two characters, or -1.
RFind(s, c) ==
    LET at == {k \in 0..(Len(s) - 2) : s[k + 1] = c /\ s[k + 2] = " "}
    IN  IF at = {} THEN -1 ELSE CHOOSE k \in at : \A j \in at : j <= k

\* max(chunk.rfind('. '), chunk.rfind('? '), chunk.rfind('! '))
LastSentenceEnd(chunk) ==
    Max(RFind(chunk, "."), Max(RFind(chunk, "?"), RFind(chunk, "!")))

\* Python's s.strip().
RECURSIVE LStrip(_)
LStrip(s) == IF s # <<>> /\ Head(s) = " " THEN LStrip(Tail(s)) ELSE s

RECURSIVE RStrip(_)
RStrip(s) ==
    IF s # <<>> /\ s[Len(s)] = " " THEN RStrip(SubSeq(s, 1, Len(s) - 1)) ELSE s

Strip(s) == LStrip(RStrip(s))

\* if last_sentence_end > chunk_size * 0.5
DecentBreakPointAny(last_sentence_end, size) == last_sentence_end >= 0
DecentBreakPoint(last_sentence_end, size) == 2 * last_sentence_end > size

\* One round of the while loop: [end, chunk] after the boundary search.
Window(t, st, size) ==
    LET end == st + size
        chunk == PySlice(t, st, end)
        last_sentence_end == LastSentenceEnd(chunk)
    IN  IF end < Len(t) /\ DecentBreakPoint(last_sentence_end, size)
        THEN [end |-> st + last_sentence_end + 1,
              chunk |-> PySlice(chunk, 0, last_sentence_end + 1)]
        ELSE [end |-> end, chunk |-> chunk]

\* start = end - overlap
NextStartPlus(end, ov) == end + ov
NextStart(end, ov) == end - ov

ChunkInit ==
    /\ text \in Texts
    /\ chunk_size \in 1..MaxChunkSize
    /\ overlap \in 0..MaxChunkSize
    /\ start = 0
    /\ chunks = <<>>
    /\ cuts = <<>>
    /\ cpc = IF text = <<>> THEN "done" ELSE "loop"
    /\ returned = <<>>

\* while start < len(text): one round.
ChunkStep ==
    /\ cpc = "loop"
    /\ start < Len(text)
    /\ Len(cuts) < MaxIterations
    /\ LET w == Window(text, start, chunk_size)
       IN  /\ chunks' = Append(chunks, Strip(w.chunk))
           /\ cuts' = Append(cuts, <<start, w.end>>)
           /\ start' = NextStart(w.end, overlap)
    /\ UNCHANGED <<text, chunk_size, overlap, cpc, returned>>
    /\ UNCHANGED nonchunk

\* return [c for c in chunks if len(c.strip()) > 0]
ChunkReturn ==
    /\ cpc = "loop"
    /\ start >= Len(text)
    /\ returned' = SelectSeq(chunks, LAMBDA c : Len(Strip(c)) > 0)
    /\ cpc' = "done"
    /\ UNCHANGED <<text, chunk_size, overlap, start, chunks, cuts>>
    /\ UNCHANGED nonchunk

ChunkNext == ChunkStep \/ ChunkReturn

(***************************************************************************)
(* semantic_search.  A raw result is its metadata and its distance; a      *)
(* field the metadata lacks is None.  Timestamps are day numbers, naive    *)
(* (no UTC offset, as 'YYYY-MM-DD' parses) or aware (with an offset, as a  *)
(* trailing 'Z' parses); distances and similarities are as above, in       *)
(* halves, which round(similarity, 4) leaves as they are.                  *)
(***************************************************************************)
None == "None"

NoTime == [form |-> "none", t |-> 0]
Naive(t) == [form |-> "naive", t |-> t]
Aware(t) == [form |-> "aware", t |-> t]
Malformed == [form |-> "malformed", t |-> 0]

\* result.get('distance', 2.0) of a result without a distance.
DefaultDistance == 2
NoDistance == -1

\* A result that passes every filter of FilterSets.
Match ==
    [doc_type |-> "prd", author |-> "Ann", created_at |-> Naive(2),
     tags |-> "list:x", distance |-> 0]

\* The results of the index: Match, and Match with one field changed.
ResultKinds ==
    {Match,
     [Match EXCEPT !.doc_type = None, !.distance = 1],
     [Match EXCEPT !.doc_type = "kt"],
     [Match EXCEPT !.author = None],
     [Match EXCEPT !.author = "bob", !.distance = 3],
     [Match EXCEPT !.created_at = NoTime],
     [Match EXCEPT !.created_at = Malformed],
     [Match EXCEPT !.created_at = Naive(1)],
     [Match EXCEPT !.created_at = Naive(3), !.distance = NoDistance],
     [Match EXCEPT !.created_at = Aware(2)],
     [Match EXCEPT !.tags = None],
     [Match EXCEPT !.tags = "str:x"],
     [Match EXCEPT !.tags = "list:y", !.distance = NoDistance]}

NoFilters ==
    [doc_type |-> None, author |-> None, date_from |-> NoTime,
     date_to |-> NoTime, tags |-> None]

\* The filter parameters of a request.
FilterSets ==
    {NoFilters,
     [NoFilters EXCEPT !.doc_type = "prd"],
     [NoFilters EXCEPT !.author = "ann"],
     [NoFilters EXCEPT !.date_from = Naive(2)],
     [NoFilters EXCEPT !.date_to = Naive(2)],
     [NoFilters EXCEPT !.date_from = Naive(2), !.date_to = Naive(2)],
     [NoFilters EXCEPT !.tags = "x"],
     [NoFilters EXCEPT !.doc_type = "prd", !.tags = "x"]}

\* str.lower()
Lower(str) == IF str = "Ann" THEN "ann" ELSE str

\* if doc_type and metadata.get('doc_type') != doc_type: continue
DocTypeDrops(f, m) == f.doc_type # None /\ m.doc_type # f.doc_type

\* if author and metadata.get('author', '').lower() != author.lower(): continue
AuthorDrops(f, m) ==
    /\ f.author # None
    /\ Lower(IF m.author = None THEN "" ELSE m.author) # Lower(f.author)

\* The date block: "keep", "drop" (continue) or "TypeError" (a naive and an
\* aware datetime compared; only ValueError and AttributeError are caught).
DateOutcome(f, m) ==
    IF f.date_from = NoTime /\ f.date_to = NoTime THEN "keep"
    ELSE IF m.created_at = NoTime THEN "keep"
    ELSE IF m.created_at = Malformed THEN "keep"
    ELSE IF f.date_from # NoTime /\ m.created_at.form # f.date_from.form
         THEN "TypeError"
    ELSE IF f.date_from # NoTime /\ m.created_at.t < f.date_from.t THEN "drop"
    ELSE IF f.date_to # NoTime /\ m.created_at.form # f.date_to.form
         THEN "TypeError"
    ELSE IF f.date_to # NoTime /\ m.created_at.t > f.date_to.t THEN "drop"
    ELSE "keep"

\* The tag block: doc_tags = metadata.get('tags', []); a list without any of
\* the requested tags drops the result, a value that is no list is ignored.
TagsDrop(f, m) ==
    /\ f.tags # None
    /\ m.tags \in {None, "list:y"}

\* distance = result.get('distance', 2.0); similarity = max(0, (2 - distance) / 2)
SimilarityScore(r) ==
    LET distance == IF r.distance = NoDistance THEN DefaultDistance ELSE r.distance
    IN  Max(0, 2 - distance)

\* What one round of the loop does with a raw result.
ScanOutcome(f, m) ==
    IF DocTypeDrops(f, m) THEN "drop"
    ELSE IF AuthorDrops(f, m) THEN "drop"
    ELSE IF DateOutcome(f, m) # "keep" THEN DateOutcome(f, m)
    ELSE IF TagsDrop(f, m) THEN "drop"
    ELSE "keep"

\* if len(search_results) >= limit: break
LimitReachedLate(n, lim) == n > lim
LimitReached(n, lim) == n >= lim

\* A request: raw_results = search_similar(query=q, n_results=limit * 3).
SearchInit ==
    /\ limit \in 1..MaxLimit
    /\ filters \in FilterSets
    /\ raw_results \in UNION {[1..n -> ResultKinds] : n \in 0..MaxRaw}
    /\ Len(raw_results) <= limit * 3
    /\ search_results = <<>>
    /\ si = 0
    /\ spc = "scan"
    /\ ai_answer = None
    /\ status = 0
    /\ failure = None
    /\ rag_call = "none"

\* One round of `for result in raw_results`.
ScanResult ==
    /\ spc = "scan"
    /\ si < Len(raw_results)
    /\ LET r == raw_results[si + 1]
           verdict == ScanOutcome(filters, r)
           kept == Append(search_results,
                          [rank |-> si + 1, similarity_score |-> SimilarityScore(r)])
       IN  /\ si' = si + 1
           /\ search_results' = IF verdict = "keep" THEN kept ELSE search_results
           /\ spc' = IF verdict = "TypeError" THEN "responded"
                     ELSE IF verdict = "keep" /\ LimitReached(Len(kept), limit)
                          THEN "rag"
                     ELSE "scan"
           /\ status' = IF verdict = "TypeError" THEN 500 ELSE status
           /\ failure' = IF verdict = "TypeError" THEN "TypeError" ELSE failure
    /\ UNCHANGED <<limit, filters, raw_results, ai_answer, rag_call>>
    /\ UNCHANGED nonsearch

\* The loop ends with the raw results.
ScanEnds ==
    /\ spc = "scan"
    /\ si = Len(raw_results)
    /\ spc' = "rag"
    /\ UNCHANGED <<limit, filters, raw_results, search_results, si, ai_answer,
                   status, failure, rag_call>>
    /\ UNCHANGED nonsearch

\* except Exception: logging.warning(...) in the RAG block.
OnRagErrorRaise == [status |-> 500, failure |-> "generation"]
OnRagError == [status |-> 200, failure |-> None]

\* The RAG block and the response.  rag_backend is what the generation
\* backend does: "off" (no client configured), "answers" or "raises".
Respond(generate_answer, rag_backend) ==
    /\ spc = "rag"
    /\ LET called == generate_answer /\ search_results # <<>> /\ rag_backend # "off"
           after == IF called /\ rag_backend = "raises"
                    THEN OnRagError
                    ELSE [status |-> 200, failure |-> None]
       IN  /\ ai_answer' = IF called /\ rag_backend = "answers" THEN "answer" ELSE None
           /\ status' = after.status
           /\ failure' = after.failure
           /\ rag_call' = IF ~called
                          THEN (IF generate_answer /\ search_results # <<>>
                                THEN "off" ELSE "skipped")
                          ELSE IF rag_backend = "raises" THEN "raised" ELSE "answered"
    /\ spc' = "responded"
    /\ UNCHANGED <<limit, filters, raw_results, search_results, si>>
    /\ UNCHANGED nonsearch

SearchNext ==
    \/ ScanResult
    \/ ScanEnds
    \/ \E generate_answer \in BOOLEAN, rag_backend \in {"off", "answers", "raises"} :
          Respond(generate_answer, rag_backend)

(***************************************************************************)
(* Streamed answers and reviews.  A producer starts a generation backend,  *)
(* reads what it produces and sends events to the consumer:                *)
(*   answer_cli    stream_search_answer, model claude-code (subprocess)    *)
(*   answer_api    stream_search_answer, model claude-api (API stream)     *)
(*   answer_openai stream_search_answer, any other model (API stream)      *)
(*   review_cli    stream_review over stream_review_claude_code or         *)
(*                 stream_review (subprocess)                              *)
(*   review_api    stream_review over stream_review_claude (API stream)    *)
(*   review_job    _generate_with_cursor_streaming (subprocess, no events) *)
(* Time is counted in units of which WaitTimeout make up the 1200 seconds  *)
(* of process.wait(timeout=1200).                                          *)
(***************************************************************************)
AnswerPaths == {"answer_cli", "answer_api", "answer_openai"}
ReviewPaths == {"review_cli", "review_api"}
StreamPaths == AnswerPaths \cup ReviewPaths
Paths == StreamPaths \cup {"review_job"}

Subprocess(pa) == pa \in {"answer_cli", "review_cli", "review_job"}

\* process.wait(timeout=1200)
WaitTimeout == 2

\* The events before the backend is started.
FirstEvents(pa) ==
    IF pa \in AnswerPaths THEN <<"status", "sources", "status">>
    ELSE IF pa \in ReviewPaths THEN <<"start", "info">>
    ELSE <<>>

\* The completion marker.
Marker(pa) == IF pa \in AnswerPaths THEN "done" ELSE "complete"

Send(pa, evs, more) == IF pa \in StreamPaths THEN evs \o more ELSE evs

\* What the producer sends when the backend has ended: the marker after
\* exit code 0 or a stream that ended, an error event otherwise.
OnBackendEndBoth(pa, ok) == IF ok THEN <<Marker(pa)>> ELSE <<"error", Marker(pa)>>
OnBackendEnd(pa, ok) == IF ok THEN <<Marker(pa)>> ELSE <<"error">>

StreamInit ==
    /\ path \in Paths
    /\ ppc = "begin"
    /\ events = <<>>
    /\ received = 0
    /\ backend = "none"
    /\ sink = "open"
    /\ waited = 0
    /\ outcome = "none"

\* The producer up to the start of the backend.  Not ok: search_similar
\* raises, the document is not found, the client is not configured or the
\* process cannot be started; the handler sends an error event.
Begin(ok) ==
    /\ ppc = "begin"
    /\ IF ok
       THEN /\ events' = Send(path, events, FirstEvents(path))
            /\ backend' = "running"
            /\ ppc' = "reading"
            /\ UNCHANGED outcome
       ELSE /\ events' = Send(path, events, <<Head(FirstEvents(path)), "error">>)
            /\ ppc' = "ended"
            /\ outcome' = "error"
            /\ UNCHANGED backend
    /\ path \in StreamPaths \/ ok
    /\ UNCHANGED <<path, received, sink, waited>>
    /\ UNCHANGED nonstream

\* The backend produces a chunk and the producer reads it and sends it on.
BackendOutput ==
    /\ ppc = "reading"
    /\ backend = "running"
    /\ received < MaxContent
    /\ received' = received + 1
    /\ events' = Send(path, events, <<"content">>)
    /\ UNCHANGED <<path, ppc, backend, sink, waited, outcome>>
    /\ UNCHANGED nonstream

\* The backend ends: exit code 0 or not, the API stream ends or raises.
BackendExit(ok) ==
    /\ backend = "running"
    /\ backend' = IF ok THEN "exited_ok" ELSE "exited_fail"
    /\ UNCHANGED <<path, ppc, events, received, sink, waited, outcome>>
    /\ UNCHANGED nonstream

\* The backend goes silent for good: with its output still open ("stalled")
\* or, a subprocess, after closing its output without exiting.
BackendHangs(how) ==
    /\ backend = "running"
    /\ how = "hung_after_eof" => Subprocess(path)
    /\ backend' = how
    /\ UNCHANGED <<path, ppc, events, received, sink, waited, outcome>>
    /\ UNCHANGED nonstream

\* The producer sees the end of the backend and sends its last event.
ProducerEnds ==
    /\ ppc = "reading"
    /\ backend \in {"exited_ok", "exited_fail"}
    /\ events' = Send(path, events, OnBackendEnd(path, backend = "exited_ok"))
    /\ outcome' = IF backend = "exited_ok" THEN "done" ELSE "error"
    /\ ppc' = "ended"
    /\ UNCHANGED <<path, received, backend, sink, waited>>
    /\ UNCHANGED nonstream

\* Only process.wait(timeout=1200) of _generate_with_cursor_streaming, which
\* runs after the output has ended, has a timeout.
HasTimeout == path = "review_job" /\ backend = "hung_after_eof"

\* Time passes while the producer waits in readline() or wait().
Tick ==
    /\ ppc = "reading"
    /\ backend \in {"stalled", "hung_after_eof"}
    /\ waited < MaxWait
    /\ HasTimeout => waited < WaitTimeout
    /\ waited' = waited + 1
    /\ UNCHANGED <<path, ppc, events, received, backend, sink, outcome>>
    /\ UNCHANGED nonstream

\* subprocess.TimeoutExpired, raised on as ValueError.
WaitTimesOut ==
    /\ ppc = "reading"
    /\ HasTimeout
    /\ waited >= WaitTimeout
    /\ outcome' = "error"
    /\ ppc' = "ended"
    /\ UNCHANGED <<path, events, received, backend, sink, waited>>
    /\ UNCHANGED nonstream

\* The backend after the generator has been closed: `async with
\* client.messages.stream(...)` closes the API stream; nothing else is done.
AfterCloseKill(pa, b) == IF b \in {"running", "stalled", "hung_after_eof"} THEN "closed" ELSE b
AfterClose(pa, b) ==
    IF pa = "answer_api" /\ b \in {"running", "stalled"} THEN "closed" ELSE b

\* The consumer disconnects while the generator is suspended: the generator
\* is closed at its yield or await and its finally blocks run.
Disconnect ==
    /\ path \in StreamPaths
    /\ ppc = "reading"
    /\ sink = "open"
    /\ sink' = "closed"
    /\ ppc' = "closed"
    /\ backend' = AfterClose(path, backend)
    /\ UNCHANGED <<path, events, received, waited, outcome>>
    /\ UNCHANGED nonstream

StreamNext ==
    \/ \E ok \in BOOLEAN : Begin(ok)
    \/ BackendOutput
    \/ \E ok \in BOOLEAN : BackendExit(ok)
    \/ \E how \in {"stalled", "hung_after_eof"} : BackendHangs(how)
    \/ ProducerEnds
    \/ Tick
    \/ WaitTimesOut
    \/ Disconnect

(***************************************************************************)
(* The embedding model and index client over the requests of one process.  *)
(* An instance is numbered by the load that made it.                       *)
(***************************************************************************)
\* The endpoints that call get_embedding_service().
SearchKinds == {"search", "suggestions", "answer_stream"}

\* get_embedding_service(): the instance it returns and the loads after it.
GetEmbeddingService(global, n) ==
    IF global = 0
    THEN [instance |-> n + 1, loads |-> n + 1]
    ELSE [instance |-> global, loads |-> n]

ProcessInit ==
    /\ embedding_service = 0
    /\ loads = 0
    /\ served = <<>>

\* semantic_search, get_search_suggestions, stream_search_answer.
ServeSearch(kind) ==
    /\ Len(served) < MaxRequests
    /\ LET got == GetEmbeddingService(embedding_service, loads)
       IN  /\ embedding_service' = got.instance
           /\ loads' = got.loads
           /\ served' = Append(served, [kind |-> kind, instance |-> got.instance])
    /\ UNCHANGED nonprocess

\* The knowledge-graph endpoints: GraphService(db), whose __init__ makes an
\* EmbeddingService() of its own.
ServeGraph ==
    /\ Len(served) < MaxRequests
    /\ loads' = loads + 1
    /\ served' = Append(served, [kind |-> "graph", instance |-> loads + 1])
    /\ UNCHANGED embedding_service
    /\ UNCHANGED nonprocess

\* Code ingestion: CodeIngestionService(db) starts with embedding_model =
\* None; _load_embedding_model, which would load a model into the service
\* object, has no caller, so the request uses no instance (0).
ServeCodeIngestion ==
    /\ Len(served) < MaxRequests
    /\ served' = Append(served, [kind |-> "code_ingestion", instance |-> 0])
    /\ UNCHANGED <<embedding_service, loads>>
    /\ UNCHANGED nonprocess

ProcessNext ==
    \/ \E kind \in SearchKinds : ServeSearch(kind)
    \/ ServeGraph
    \/ ServeCodeIngestion

(***************************************************************************)
(* Background jobs: the import of a Google Docs URL and the AI review of a *)
(* document.  The endpoint creates the job record, queues the task and     *)
(* returns; the task runs afterwards in a session of its own.  job is the  *)
(* record in that session, job_db what its commits have made visible.      *)
(***************************************************************************)
JobKinds == {"import", "review"}

\* ImportStatus, ReviewStatus
Terminal == {"completed", "failed", "partial"}

NoJob == [status |-> "none", total_docs |-> 0, processed_docs |-> 0,
          failed_docs |-> 0, error_message |-> None, error_details |-> None,
          completed_at |-> FALSE]

\* ImportJob(source_url, status=PENDING, user_email, total_docs=1)
NewImportJob == [NoJob EXCEPT !.status = "pending", !.total_docs = 1]

\* DocumentReview(..., status=PENDING)
NewReview == [NoJob EXCEPT !.status = "pending"]

\* job.status = FAILED; job.error_message = ...; job.completed_at = utcnow()
Failed(j, message) ==
    [j EXCEPT !.status = "failed", !.error_message = message, !.completed_at = TRUE]

\* job.total_docs += len(linked_ids)
TotalAfterLinksSame(total, n) == total
TotalAfterLinks(total, n) == total + n

\* status=job.status.value of the response
HandleStatus(j) == j.status

\* What a lookup of a document by its source URL gives, what the import of a
\* linked document gives, the providers of __init__, and what the agent does.
Lookups == {"existing", "absent", "raises"}
LinkedOutcomes == {"existing", "imported", "fails", "raises"}
Providers == {"cursor", "anthropic", "openai", "mock"}
Agents == {"exits_ok", "exits_fail", "silent"}

JobsInit ==
    /\ job_kind \in JobKinds
    /\ recursive \in (IF job_kind = "import" THEN BOOLEAN ELSE {FALSE})
    /\ provider \in (IF job_kind = "review" THEN Providers ELSE {"mock"})
    /\ jpc = "request"
    /\ job = NoJob
    /\ job_db = NoJob
    /\ response = None
    /\ imported_doc_ids = <<>>
    /\ failed_imports = <<>>
    /\ linked_ids = 0
    /\ linked_done = 0
    /\ doc_id_found = FALSE
    /\ internal_exception = FALSE

\* import_google_docs: a header without 'Bearer ' is answered 401; else the
\* job is created and committed, the task is queued and the handle returned.
ImportGoogleDocs(bearer) ==
    /\ job_kind = "import"
    /\ jpc = "request"
    /\ IF bearer
       THEN /\ job' = NewImportJob
            /\ job_db' = NewImportJob
            /\ response' = HandleStatus(NewImportJob)
            /\ jpc' = "queued"
       ELSE /\ response' = "401"
            /\ jpc' = "rejected"
            /\ UNCHANGED <<job, job_db>>
    /\ UNCHANGED <<job_kind, recursive, provider, imported_doc_ids,
                   failed_imports, linked_ids, linked_done, doc_id_found,
                   internal_exception>>
    /\ UNCHANGED nonjob

\* _run_import_job, import_from_url up to the first commit: the job is
\* found, set to PROCESSING and committed.
ImportBegins ==
    /\ job_kind = "import"
    /\ jpc = "queued"
    /\ job' = [job EXCEPT !.status = "processing"]
    /\ job_db' = job'
    /\ jpc' = "extract"
    /\ UNCHANGED <<job_kind, recursive, provider, response, imported_doc_ids,
                   failed_imports, linked_ids, linked_done, doc_id_found,
                   internal_exception>>
    /\ UNCHANGED nonjob

\* doc_id = extract_doc_id(url); if not doc_id: FAILED, "Invalid Google Docs
\* URL", commit, return.
ExtractDocId(found) ==
    /\ jpc = "extract"
    /\ doc_id_found' = found
    /\ IF found
       THEN /\ jpc' = "check_main"
            /\ UNCHANGED <<job, job_db>>
       ELSE /\ job' = Failed(job, "Invalid Google Docs URL")
            /\ job_db' = job'
            /\ jpc' = "ended"
    /\ UNCHANGED <<job_kind, recursive, provider, response, imported_doc_ids,
                   failed_imports, linked_ids, linked_done,
                   internal_exception>>
    /\ UNCHANGED nonjob

\* except Exception as e: FAILED, str(e), completed_at, commit.
ImportRaises ==
    /\ job' = Failed(job, "str(e)")
    /\ job_db' = job'
    /\ internal_exception' = TRUE
    /\ jpc' = "ended"

\* existing_main = get_document_by_source_url(...); if existing_main: the job
\* is COMPLETED with one processed document.
CheckMain(found) ==
    /\ jpc = "check_main"
    /\ CASE found = "raises" ->
              /\ ImportRaises
              /\ UNCHANGED imported_doc_ids
         [] found = "existing" ->
              /\ imported_doc_ids' = Append(imported_doc_ids, 0)
              /\ job' = [job EXCEPT !.processed_docs = @ + 1,
                                    !.status = "completed",
                                    !.completed_at = TRUE]
              /\ job_db' = job'
              /\ jpc' = "ended"
              /\ UNCHANGED internal_exception
         [] OTHER ->
              /\ jpc' = "import_main"
              /\ UNCHANGED <<job, job_db, imported_doc_ids, internal_exception>>
    /\ UNCHANGED <<job_kind, recursive, provider, response, failed_imports,
                   linked_ids, linked_done, doc_id_found>>
    /\ UNCHANGED nonjob

\* result = await _import_single_document(doc_id, user_email), which returns
\* success or the failure it caught; the counters; with recursive, a
\* successful result and linked ids, total_docs grows and is committed.
ImportMain(success, n) ==
    /\ jpc = "import_main"
    /\ imported_doc_ids' =
          IF success THEN Append(imported_doc_ids, 0) ELSE imported_doc_ids
    /\ failed_imports' =
          IF success THEN failed_imports ELSE Append(failed_imports, 0)
    /\ IF recursive /\ success /\ n > 0
       THEN /\ job' = [job EXCEPT !.processed_docs = @ + 1,
                                  !.total_docs = TotalAfterLinks(@, n)]
            /\ job_db' = job'
            /\ linked_ids' = n
            /\ jpc' = "linked"
       ELSE /\ job' = IF success THEN [job EXCEPT !.processed_docs = @ + 1]
                      ELSE [job EXCEPT !.failed_docs = @ + 1]
            /\ jpc' = "finalize"
            /\ UNCHANGED <<job_db, linked_ids>>
    /\ UNCHANGED <<job_kind, recursive, provider, response, linked_done,
                   doc_id_found, internal_exception>>
    /\ UNCHANGED nonjob

\* One round of `for linked_id in linked_ids`: an existing document counts as
\* processed (continue, no commit); else it is imported, counted as processed
\* or failed, and the job is committed.  The loop ends after the last id.
ImportLinked(found) ==
    /\ jpc = "linked"
    /\ linked_done < linked_ids
    /\ IF found = "raises"
       THEN /\ ImportRaises
            /\ UNCHANGED <<imported_doc_ids, failed_imports, linked_done>>
       ELSE /\ linked_done' = linked_done + 1
            /\ jpc' = IF linked_done + 1 = linked_ids THEN "finalize" ELSE "linked"
            /\ imported_doc_ids' =
                  IF found = "fails" THEN imported_doc_ids
                  ELSE Append(imported_doc_ids, linked_done + 1)
            /\ failed_imports' =
                  IF found = "fails" THEN Append(failed_imports, linked_done + 1)
                  ELSE failed_imports
            /\ job' = IF found = "fails"
                      THEN [job EXCEPT !.failed_docs = @ + 1]
                      ELSE [job EXCEPT !.processed_docs = @ + 1]
            /\ job_db' = IF found = "existing" THEN job_db ELSE job'
            /\ UNCHANGED internal_exception
    /\ UNCHANGED <<job_kind, recursive, provider, response, linked_ids,
                   doc_id_found>>
    /\ UNCHANGED nonjob

\* Finalize job: error_details and PARTIAL or FAILED when an import failed,
\* else COMPLETED; completed_at; commit.
FinalizeImport ==
    /\ jpc = "finalize"
    /\ job' = IF failed_imports # <<>>
              THEN [job EXCEPT !.error_details = "failed_imports",
                               !.status = IF imported_doc_ids # <<>>
                                          THEN "partial" ELSE "failed",
                               !.completed_at = TRUE]
              ELSE [job EXCEPT !.status = "completed", !.completed_at = TRUE]
    /\ job_db' = job'
    /\ jpc' = "ended"
    /\ UNCHANGED <<job_kind, recursive, provider, response, imported_doc_ids,
                   failed_imports, linked_ids, linked_done, doc_id_found,
                   internal_exception>>
    /\ UNCHANGED nonjob

\* create_document_review: create_review_job raises ValueError for an unknown
\* document (404); else the review is created PENDING and committed, the
\* task is queued and the handle returned.
CreateDocumentReview(document_found) ==
    /\ job_kind = "review"
    /\ jpc = "request"
    /\ IF document_found
       THEN /\ job' = NewReview
            /\ job_db' = NewReview
            /\ response' = HandleStatus(NewReview)
            /\ jpc' = "queued"
       ELSE /\ response' = "404"
            /\ jpc' = "rejected"
            /\ UNCHANGED <<job, job_db>>
    /\ UNCHANGED <<job_kind, recursive, provider, imported_doc_ids,
                   failed_imports, linked_ids, linked_done, doc_id_found,
                   internal_exception>>
    /\ UNCHANGED nonjob

\* except Exception as e of process_review: FAILED, str(e), completed_at,
\* commit, raise (logged by _run_review_job).
ReviewRaises ==
    /\ job' = Failed(job, "str(e)")
    /\ job_db' = job'
    /\ internal_exception' = TRUE
    /\ jpc' = "ended"

\* _run_review_job, process_review up to the generation: PROCESSING is
\* committed; a document without content raises.
ReviewBegins(has_content) ==
    /\ job_kind = "review"
    /\ jpc = "queued"
    /\ IF has_content
       THEN /\ job' = [job EXCEPT !.status = "processing"]
            /\ job_db' = job'
            /\ jpc' = "generate"
            /\ UNCHANGED internal_exception
       ELSE ReviewRaises
    /\ UNCHANGED <<job_kind, recursive, provider, response, imported_doc_ids,
                   failed_imports, linked_ids, linked_done, doc_id_found>>
    /\ UNCHANGED nonjob

\* _generate_review_with_streaming.  With the cursor provider the output of
\* the agent is read line by line: it ends and the agent exits with 0, or
\* the call raises, or the agent stays silent and the read never returns.
\* With another provider `await self._generate_review(...)[0]` subscripts a
\* coroutine, which raises.
GenerateReview(agent) ==
    /\ jpc = "generate"
    /\ CASE provider = "cursor" /\ agent = "exits_ok" ->
              /\ jpc' = "create_reviewed"
              /\ UNCHANGED <<job, job_db, internal_exception>>
         [] provider = "cursor" /\ agent = "silent" ->
              /\ jpc' = "blocked"
              /\ UNCHANGED <<job, job_db, internal_exception>>
         [] OTHER -> ReviewRaises
    /\ UNCHANGED <<job_kind, recursive, provider, response, imported_doc_ids,
                   failed_imports, linked_ids, linked_done, doc_id_found>>
    /\ UNCHANGED nonjob

\* _create_reviewed_document, then COMPLETED, completed_at, commit.
CompleteReview(created) ==
    /\ jpc = "create_reviewed"
    /\ IF created
       THEN /\ job' = [job EXCEPT !.status = "completed", !.completed_at = TRUE]
            /\ job_db' = job'
            /\ jpc' = "ended"
            /\ UNCHANGED internal_exception
       ELSE ReviewRaises
    /\ UNCHANGED <<job_kind, recursive, provider, response, imported_doc_ids,
                   failed_imports, linked_ids, linked_done, doc_id_found>>
    /\ UNCHANGED nonjob

JobsNext ==
    \/ \E bearer \in BOOLEAN : ImportGoogleDocs(bearer)
    \/ ImportBegins
    \/ \E found \in BOOLEAN : ExtractDocId(found)
    \/ \E found \in Lookups : CheckMain(found)
    \/ \E success \in BOOLEAN, n \in 0..MaxLinked : ImportMain(success, n)
    \/ \E found \in LinkedOutcomes : ImportLinked(found)
    \/ FinalizeImport
    \/ \E document_found \in BOOLEAN : CreateDocumentReview(document_found)
    \/ \E has_content \in BOOLEAN : ReviewBegins(has_content)
    \/ \E agent \in Agents : GenerateReview(agent)
    \/ \E created \in BOOLEAN : CompleteReview(created)

(***************************************************************************)
(* build_knowledge_graph.  The call resolves its documents and             *)
(* repositories, adds their nodes (and the sheets of each document), adds  *)
(* the edges _find_semantic_relationships returns, and returns the dict.   *)
(***************************************************************************)
Take(s, n) == SubSeq(s, 1, n)

DbDocuments == UNION {[1..n -> 0..MaxSheets] : n \in 0..MaxGraphDocs}

CountType(ns, t) == Cardinality({i \in 1..Len(ns) : ns[i].type = t})

\* if not collection: return {"nodes": [], "edges": []}
UnknownCollectionPayload == [nodes |-> <<>>, edges |-> <<>>]

\* return {"nodes": nodes, "edges": edges, "stats": {...}}
Payload(ns, es) ==
    [nodes |-> ns, edges |-> es,
     stats |-> [total_nodes |-> Len(ns),
                total_edges |-> Len(es),
                document_count |-> CountType(ns, "document"),
                repository_count |-> CountType(ns, "repository"),
                spreadsheet_count |-> CountType(ns, "spreadsheet"),
                collection_count |-> CountType(ns, "collection")]]

\* The nodes and the edges one round of `for doc in documents` appends for
\* document i with n sheets.
DocumentNodes(i, n, include_sheets) ==
    <<[id |-> <<"doc", i>>, type |-> "document"]>> \o
    (IF include_sheets
     THEN [j \in 1..n |-> [id |-> <<"sheet", i, j>>, type |-> "spreadsheet"]]
     ELSE <<>>)

SheetEdges(i, n, include_sheets) ==
    IF include_sheets
    THEN [j \in 1..n |-> [id |-> <<"edge", "doc", i, "sheet", i, j>>,
                          source |-> <<"doc", i>>, target |-> <<"sheet", i, j>>,
                          type |-> "has_sheet"]]
    ELSE <<>>

\* Most edges a relationship discovery over n entities can return here.
SemanticCounts(n) == 0..Min(MaxSemantic, (n * (n - 1)) \div 2)

BuildInit ==
    /\ collection_id \in {None, "known", "unknown"}
    /\ include \in [docs : BOOLEAN, code : BOOLEAN, sheets : BOOLEAN]
    /\ db_documents \in DbDocuments
    /\ db_repositories \in 0..MaxGraphRepos
    /\ collection \in [documents : 0..Len(db_documents),
                       repositories : 0..db_repositories]
    /\ kg_documents = <<>>
    /\ kg_repositories = 0
    /\ nodes = <<>>
    /\ kg_edges = <<>>
    /\ kpc = "start"
    /\ ki = 0
    /\ payload = <<>>

\* Get filtered items if collection is specified; an unknown collection
\* returns at once.
ResolveItems ==
    /\ kpc = "start"
    /\ IF collection_id = "unknown"
       THEN /\ payload' = UnknownCollectionPayload
            /\ kpc' = "returned"
            /\ UNCHANGED <<kg_documents, kg_repositories>>
       ELSE /\ kg_documents' =
                  IF ~include.docs THEN <<>>
                  ELSE IF collection_id = None THEN db_documents
                  ELSE Take(db_documents, collection.documents)
            /\ kg_repositories' =
                  IF ~include.code THEN 0
                  ELSE IF collection_id = None THEN db_repositories
                  ELSE collection.repositories
            /\ kpc' = "documents"
            /\ UNCHANGED payload
    /\ UNCHANGED <<collection_id, include, db_documents, db_repositories,
                   collection, nodes, kg_edges, ki>>
    /\ UNCHANGED nonbuild

\* One round of `for doc in documents`.
AddDocumentNode ==
    /\ kpc = "documents"
    /\ ki < Len(kg_documents)
    /\ nodes' = nodes \o DocumentNodes(ki + 1, kg_documents[ki + 1], include.sheets)
    /\ kg_edges' = kg_edges \o SheetEdges(ki + 1, kg_documents[ki + 1], include.sheets)
    /\ ki' = ki + 1
    /\ UNCHANGED <<collection_id, include, db_documents, db_repositories,
                   collection, kg_documents, kg_repositories, kpc, payload>>
    /\ UNCHANGED nonbuild

\* The loop over the documents has ended.
DocumentsDone ==
    /\ kpc = "documents"
    /\ ki = Len(kg_documents)
    /\ kpc' = "repositories"
    /\ ki' = 0
    /\ UNCHANGED <<collection_id, include, db_documents, db_repositories,
                   collection, kg_documents, kg_repositories, nodes, kg_edges,
                   payload>>
    /\ UNCHANGED nonbuild

\* One round of `for repo in repositories`.
AddRepositoryNode ==
    /\ kpc = "repositories"
    /\ ki < kg_repositories
    /\ nodes' = Append(nodes, [id |-> <<"repo", ki + 1>>, type |-> "repository"])
    /\ ki' = ki + 1
    /\ UNCHANGED <<collection_id, include, db_documents, db_repositories,
                   collection, kg_documents, kg_repositories, kg_edges, kpc,
                   payload>>
    /\ UNCHANGED nonbuild

\* The loop over the repositories has ended.
RepositoriesDone ==
    /\ kpc = "repositories"
    /\ ki = kg_repositories
    /\ kpc' = "semantic"
    /\ ki' = 0
    /\ UNCHANGED <<collection_id, include, db_documents, db_repositories,
                   collection, kg_documents, kg_repositories, nodes, kg_edges,
                   payload>>
    /\ UNCHANGED nonbuild

\* semantic_edges = self._find_semantic_relationships(documents,
\* repositories); edges.extend(semantic_edges); return {...}.  An exception of
\* the discovery leaves the call (the endpoint answers 500).
RelateAndReturn(k, raises) ==
    /\ kpc = "semantic"
    /\ k \in SemanticCounts(Len(kg_documents) + kg_repositories)
    /\ IF raises
       THEN /\ kpc' = "raised"
            /\ UNCHANGED <<kg_edges, payload>>
       ELSE /\ kg_edges' = kg_edges \o [j \in 1..k |-> [id |-> <<"edge", "semantic", j>>,
                                                       type |-> "related_to"]]
            /\ payload' = Payload(nodes, kg_edges')
            /\ kpc' = "returned"
    /\ UNCHANGED <<collection_id, include, db_documents, db_repositories,
                   collection, kg_documents, kg_repositories, nodes, ki>>
    /\ UNCHANGED nonbuild

BuildNext ==
    \/ ResolveItems
    \/ AddDocumentNode
    \/ DocumentsDone
    \/ AddRepositoryNode
    \/ RepositoriesDone
    \/ \E k \in 0..MaxSemantic, raises \in BOOLEAN : RelateAndReturn(k, raises)

(***************************************************************************)
(* batch_process_documents.  The batch calls store_document_embeddings for *)
(* each selected document in turn, in one session, and counts what each    *)
(* call gave.                                                              *)
(***************************************************************************)
NoStats == [total |-> 0, processed |-> 0, skipped |-> 0, failed |-> 0]

\* query.all(): the selected documents, each once, in the order of the query
Selections == {<<>>, <<"a">>, <<"b">>, <<"a", "b">>, <<"b", "a">>}

\* What the batch leaves alone beside the state of the indexer.
nonbatchembed == <<gvars, cvars, svars, tvars, ivars, jvars, kvars, nvars, mvars, fvars>>
nonnumber == <<gvars, evars, cvars, svars, tvars, ivars, jvars, kvars, bvars, mvars, fvars>>
nontable == <<gvars, evars, cvars, svars, tvars, ivars, jvars, kvars, bvars, nvars, fvars>>
nontemp == <<gvars, evars, cvars, svars, tvars, ivars, jvars, kvars, bvars, nvars, mvars>>

\* The loop goes on with the next document, after a return and after an
\* exception alike.
NextDocumentStop(i, n, failed) == IF failed THEN n ELSE i + 1
NextDocument(i, n, failed) == i + 1

\* stats of a call that returned chunks, or raised
Counted(st, chunks_returned, failed) ==
    IF failed THEN [st EXCEPT !.failed = @ + 1]
    ELSE IF chunks_returned > 0 THEN [st EXCEPT !.processed = @ + 1]
    ELSE [st EXCEPT !.skipped = @ + 1]

\* documents = query.all(); stats = {'total': len(documents), ...}
BatchBegins(selection, force) ==
    /\ bpc \in {"idle", "returned"}
    /\ AllIdle
    /\ batch_documents' = selection
    /\ batch_force' = force
    /\ batch_stats' = [NoStats EXCEPT !.total = Len(selection)]
    /\ bi' = 0
    /\ bpc' = "loop"
    /\ attempts' = [d \in EmbedDocs |-> 0]
    /\ raised_docs' = {}
    /\ UNCHANGED nonbatch

\* chunks = self.store_document_embeddings(db=db, document=doc,
\* force_regenerate=force_regenerate)
BatchCalls ==
    /\ bpc = "loop"
    /\ bi < Len(batch_documents)
    /\ StoreCall("p1", batch_documents[bi + 1], batch_force)

\* The call is back: the stats count it as processed, skipped or, in the
\* except branch, failed, and the loop goes on.
BatchCounts ==
    /\ bpc = "loop"
    /\ HandBack("p1")
    /\ batch_stats' = Counted(batch_stats, frame["p1"].ret, epc["p1"] = "raised")
    /\ bi' = NextDocument(bi, Len(batch_documents), epc["p1"] = "raised")
    /\ attempts' = [attempts EXCEPT ![frame["p1"].doc] = @ + 1]
    /\ raised_docs' = IF epc["p1"] = "raised"
                      THEN raised_docs \cup {frame["p1"].doc} ELSE raised_docs
    /\ UNCHANGED <<batch_documents, batch_force, bpc>>
    /\ UNCHANGED nonbatchembed

\* return stats
BatchReturns ==
    /\ bpc = "loop"
    /\ bi >= Len(batch_documents)
    /\ AllIdle
    /\ bpc' = "returned"
    /\ UNCHANGED <<batch_documents, batch_force, batch_stats, bi, attempts,
                   raised_docs>>
    /\ UNCHANGED nonbatch

BatchNext ==
    \/ \E selection \in Selections, force \in BOOLEAN : BatchBegins(selection, force)
    \/ BatchCalls
    \/ \E index_ok \in BOOLEAN : DeleteExisting("p1", index_ok)
    \/ ReadContent("p1")
    \/ \E ok \in BOOLEAN : GenerateEmbeddings("p1", ok)
    \/ \E add_ok \in BOOLEAN : StoreChunk("p1", add_ok)
    \/ CommitAndReturn("p1")
    \/ BatchCounts
    \/ BatchReturns

(***************************************************************************)
(* The similarity of a distance, in binary floating point.  A number is an *)
(* integer count of units of 2^-FractionBits; a float has Precision        *)
(* significand bits, every subtraction rounds to the nearest float (ties   *)
(* to even) and a division by 2 is exact.                                  *)
(***************************************************************************)
RECURSIVE Pow2(_)
Pow2(k) == IF k = 0 THEN 1 ELSE 2 * Pow2(k - 1)

RECURSIVE Log2Floor(_)
Log2Floor(n) == IF n < 2 THEN 0 ELSE 1 + Log2Floor(n \div 2)

One == Pow2(FractionBits)
Two == 2 * One
\* distances up to 3.0: beyond the nominal range [0, 2]
MaxDistance == 3 * One

RoundNearestEven(n) ==
    LET a == IF n < 0 THEN -n ELSE n
    IN  IF a < Pow2(Precision) THEN n
        ELSE LET e == Log2Floor(a) - (Precision - 1)
                 q == a \div Pow2(e)
                 r == a % Pow2(e)
                 up == 2 * r > Pow2(e) \/ (2 * r = Pow2(e) /\ q % 2 = 1)
                 v == (IF up THEN q + 1 ELSE q) * Pow2(e)
             IN  IF n < 0 THEN -v ELSE v

\* a - b
FSub(a, b) == RoundNearestEven(a - b)

\* a / 2, a / 2.0
FHalf(a) == IF a < 0 THEN -((-a) \div 2) ELSE a \div 2

\* The distances the index can return: the floats from 0 to MaxDistance whose
\* half is a float too.
FloatDistances == {n \in 0..MaxDistance : n % 2 = 0 /\ RoundNearestEven(n) = n}

\* max(0, x)
ClampNone(x) == x
Clamp(x) == IF 0 > x THEN 0 ELSE x

\* round(x, 4): the nearest multiple of the step of the reported scores, ties
\* to even
ScoreStep == 4
Round4(x) ==
    LET q == x \div ScoreStep
        r == x % ScoreStep
        up == 2 * r > ScoreStep \/ (2 * r = ScoreStep /\ q % 2 = 1)
    IN  (IF up THEN q + 1 ELSE q) * ScoreStep

\* similarity = max(0, (2 - distance) / 2)
SearchSimilarity(d) == Clamp(FHalf(FSub(Two, d)))

\* max(0, (2 - result.get('distance', 2.0)) / 2)
SourcesSimilarity(d) == Clamp(FHalf(FSub(Two, d)))

\* similarity = max(0, 1 - (distance / 2.0))
RelationSimilarityCosine(d) == Clamp(FSub(One, d))
RelationSimilarity(d) == Clamp(FSub(One, FHalf(d)))

Components == {"search", "sources", "relation"}

With(f, c, v) == [x \in DOMAIN f \cup {c} |-> IF x = c THEN v ELSE f[x]]

NumberInit ==
    /\ dist \in FloatDistances
    /\ sims = <<>>

\* semantic_search: similarity, then similarity_score=round(similarity, 4)
ConvertInSearch ==
    /\ "search" \notin DOMAIN sims
    /\ sims' = With(sims, "search", [similarity |-> SearchSimilarity(dist),
                                     reported |-> Round4(SearchSimilarity(dist))])
    /\ UNCHANGED dist
    /\ UNCHANGED nonnumber

\* event_generator: 'similarity': round(max(0, (2 - distance) / 2), 4)
ConvertInSources ==
    /\ "sources" \notin DOMAIN sims
    /\ sims' = With(sims, "sources", [similarity |-> SourcesSimilarity(dist),
                                      reported |-> Round4(SourcesSimilarity(dist))])
    /\ UNCHANGED dist
    /\ UNCHANGED nonnumber

\* _find_semantic_relationships: similarity, appended to the scores as it is
ConvertInRelations ==
    /\ "relation" \notin DOMAIN sims
    /\ sims' = With(sims, "relation", [similarity |-> RelationSimilarity(dist),
                                       reported |-> RelationSimilarity(dist)])
    /\ UNCHANGED dist
    /\ UNCHANGED nonnumber

NumberNext ==
    \/ ConvertInSearch
    \/ ConvertInSources
    \/ ConvertInRelations

(***************************************************************************)
(* GoogleSheetsService.csv_to_markdown_table (google_sheets_service.py     *)
(* 134-177).  The CSV is the list of rows csv.reader gives for the text,   *)
(* a blank line being a row of no cells; a text is a sequence of           *)
(* characters, and the rendered table is its list of lines together with   *)
(* the truncation notice that follows them.                                *)
(***************************************************************************)
MaxCsvRows == 3

MaxCells == 2

MaxRowsArg == 2

CellTexts == {<<"x">>, <<"x", "|", "x">>}

CsvRows == UNION {[1..n -> CellTexts] : n \in 0..MaxCells}

CsvInputs == UNION {[1..n -> CsvRows] : n \in 0..MaxCsvRows}

NoTable == [lines |-> <<>>, notice |-> <<>>]

\* sep.join(cells)
RECURSIVE Join(_, _)
Join(cells, sep) ==
    IF cells = <<>> THEN <<>>
    ELSE IF Len(cells) = 1 THEN cells[1]
    ELSE cells[1] \o sep \o Join(Tail(cells), sep)

\* "| " + " | ".join(str(cell) for cell in cells) + " |"
TableLine(cells) ==
    <<"|", " ">> \o Join(cells, <<" ", "|", " ">>) \o <<" ", "|">>

\* [x] * n, the empty list for n <= 0
Repeat(x, n) == [i \in 1..n |-> x]

\* list(reader)[:max_rows]
FirstRows(all, n) == SubSeq(all, 1, Min(n, Len(all)))

\* padded_row = row + [''] * (len(header) - len(row))
PadRow(row, n) == row \o Repeat(<<>>, n - Len(row))

\* padded_row[:len(header)]
CutRow(padded_row, n) == SubSeq(padded_row, 1, Min(n, Len(padded_row)))

CsvToMarkdownTable(all, n) ==
    LET kept == FirstRows(all, n) IN
    IF kept = <<>> THEN NoTable
    ELSE LET header == kept[1]
             markdown ==
                 <<TableLine(header),
                   TableLine(Repeat(<<"-", "-", "-">>, Len(header)))>>
                 \o [i \in 1..(Len(kept) - 1) |->
                        TableLine(CutRow(PadRow(kept[i + 1], Len(header)),
                                         Len(header)))]
         IN  [lines |-> markdown,
              notice |-> IF Len(all) > n THEN <<n>> ELSE <<>>]

\* The inputs: a CSV text csv.reader reads into rows, or one it rejects
\* (csv.Error), and max_rows.
TableInit ==
    /\ reader_raises \in BOOLEAN
    /\ csv_data \in IF reader_raises THEN {<<>>} ELSE CsvInputs
    /\ max_rows \in 0..MaxRowsArg
    /\ table = NoTable
    /\ mpc = "call"

\* Lines 145-172: the rows are read, rendered and returned.
ConvertCsv ==
    /\ mpc = "call"
    /\ ~reader_raises
    /\ table' = CsvToMarkdownTable(csv_data, max_rows)
    /\ mpc' = "done"
    /\ UNCHANGED <<csv_data, max_rows, reader_raises>>
    /\ UNCHANGED nontable

\* Lines 174-176: csv.reader raises, the error is logged and "" returned.
ConvertFails ==
    /\ mpc = "call"
    /\ reader_raises
    /\ table' = NoTable
    /\ mpc' = "done"
    /\ UNCHANGED <<csv_data, max_rows, reader_raises>>
    /\ UNCHANGED nontable

TableNext ==
    \/ ConvertCsv
    \/ ConvertFails

(***************************************************************************)
(* The temporary file of a streamed generation over a subprocess: the      *)
(* prompt file of stream_search_answer with model claude-code (search.py   *)
(* 390-427, "answer") and the document file of AIReviewService.            *)
(* stream_review (ai_review_service.py 73-166, "review").  The calls of    *)
(* one server follow each other; disk holds the temporary files in         *)
(* existence, a file being named by the number of the call that made it.   *)
(***************************************************************************)
MaxCalls == 3

MaxLines == 2

TempPaths == {"answer", "review"}

\* Whether the start of the subprocess lies inside the try whose finally
\* removes the file: search.py 396-398 against ai_review_service.py 107
\* and 118.
StartInsideTry(pa) == pa = "answer"

\* if os.path.exists(temp_file): os.unlink(temp_file)
Unlink(files, f) == files \ {f}

TempInit ==
    /\ calls_done = 0
    /\ call_path = "none"
    /\ fpc = "idle"
    /\ temp_file = 0
    /\ disk = {}
    /\ line_count = 0
    /\ ending = "none"

\* tempfile.NamedTemporaryFile(mode='w', suffix='.txt', delete=False): the
\* file is written and closed, and it stays.
WriteTempFile(pa) ==
    /\ fpc = "idle"
    /\ calls_done < MaxCalls
    /\ call_path' = pa
    /\ temp_file' = calls_done + 1
    /\ disk' = disk \cup {calls_done + 1}
    /\ line_count' = 0
    /\ ending' = "none"
    /\ fpc' = "written"
    /\ UNCHANGED calls_done
    /\ UNCHANGED nontemp

\* asyncio.create_subprocess_shell / create_subprocess_exec.  Not started:
\* the call raises (the executable at cursor_agent_path is missing, the
\* process cannot be forked), and only a finally already entered runs.
StartProcess(started) ==
    /\ fpc = "written"
    /\ IF started
       THEN /\ fpc' = "reading"
            /\ UNCHANGED <<disk, ending>>
       ELSE /\ fpc' = "ended"
            /\ ending' = "not_started"
            /\ disk' = IF StartInsideTry(call_path)
                       THEN Unlink(disk, temp_file) ELSE disk
    /\ UNCHANGED <<calls_done, call_path, temp_file, line_count>>
    /\ UNCHANGED nontemp

\* line = await process.stdout.readline(), sent on to the consumer.
ReadLine ==
    /\ fpc = "reading"
    /\ line_count < MaxLines
    /\ line_count' = line_count + 1
    /\ UNCHANGED <<calls_done, call_path, fpc, temp_file, disk, ending>>
    /\ UNCHANGED nontemp

\* End of output and process.wait(): exit code 0, or another one (an error
\* event in search.py, an exception raised on in stream_review); the
\* finally removes the file.
ProcessExits(returncode) ==
    /\ fpc = "reading"
    /\ ending' = IF returncode = 0 THEN "success" ELSE "exit_fail"
    /\ disk' = Unlink(disk, temp_file)
    /\ fpc' = "ended"
    /\ UNCHANGED <<calls_done, call_path, temp_file, line_count>>
    /\ UNCHANGED nontemp

\* The consumer goes away and the generator is closed where it is
\* suspended: GeneratorExit or CancelledError passes `except Exception`,
\* and the finally removes the file.
GeneratorClosed ==
    /\ fpc = "reading"
    /\ ending' = "closed"
    /\ disk' = Unlink(disk, temp_file)
    /\ fpc' = "ended"
    /\ UNCHANGED <<calls_done, call_path, temp_file, line_count>>
    /\ UNCHANGED nontemp

\* The stream has ended and the server takes the next call.
StreamOver ==
    /\ fpc = "ended"
    /\ calls_done' = calls_done + 1
    /\ fpc' = "idle"
    /\ UNCHANGED <<call_path, temp_file, disk, line_count, ending>>
    /\ UNCHANGED nontemp

TempNext ==
    \/ \E pa \in TempPaths : WriteTempFile(pa)
    \/ \E started \in BOOLEAN : StartProcess(started)
    \/ ReadLine
    \/ \E returncode \in {0, 1} : ProcessExits(returncode)
    \/ GeneratorClosed
    \/ StreamOver

(***************************************************************************)
(* Specifications.                                                         *)
(***************************************************************************)
GraphNext ==
    \/ \E hit \in Hits : SearchSimilarYield(hit)
    \/ SearchSimilarFail
    \/ ProcessDocRepo
    \/ ProcessDocDoc
    \/ ProcessRepoRepo
    \/ NextIteration

\* The relationship engine before a call.
GraphIdle ==
    /\ documents = <<>>
    /\ repositories = <<>>
    /\ min_confidence = 1
    /\ edges = <<>>
    /\ seen_edges = {}
    /\ gpc = "done"
    /\ gi = 0
    /\ phase = "fetch"
    /\ results = <<>>
    /\ raised = FALSE
    /\ discovered = {}
    /\ queries = 0
    /\ failed_any = FALSE

\* The indexer with nothing indexed.
EmbedIdle ==
    /\ content = [d \in EmbedDocs |-> 0]
    /\ version = [d \in EmbedDocs |-> 0]
    /\ vecs = {}
    /\ rows = [d \in EmbedDocs |-> 0]
    /\ committed = [d \in EmbedDocs |-> 0]
    /\ epc = [p \in AllCallers |-> "idle"]
    /\ frame = [p \in AllCallers |-> NoFrame]
    /\ snapshot = [p \in AllCallers |-> NoSnapshot]
    /\ last_call = NoCall

\* The chunker before a call.
ChunkIdle ==
    /\ text = <<>>
    /\ chunk_size = 1
    /\ overlap = 0
    /\ start = 0
    /\ chunks = <<>>
    /\ cuts = <<>>
    /\ cpc = "done"
    /\ returned = <<>>

\* The search endpoint before a request.
SearchIdle ==
    /\ limit = 1
    /\ filters = NoFilters
    /\ raw_results = <<>>
    /\ search_results = <<>>
    /\ si = 0
    /\ spc = "responded"
    /\ ai_answer = None
    /\ status = 0
    /\ failure = None
    /\ rag_call = "none"

\* No stream.
StreamIdle ==
    /\ path = "answer_cli"
    /\ ppc = "ended"
    /\ events = <<>>
    /\ received = 0
    /\ backend = "none"
    /\ sink = "open"
    /\ waited = 0
    /\ outcome = "none"

\* A process that has served nothing.
ProcessIdle ==
    /\ embedding_service = 0
    /\ loads = 0
    /\ served = <<>>

\* No job requested.
JobIdle ==
    /\ job_kind = "import"
    /\ recursive = FALSE
    /\ provider = "mock"
    /\ jpc = "request"
    /\ job = NoJob
    /\ job_db = NoJob
    /\ response = None
    /\ imported_doc_ids = <<>>
    /\ failed_imports = <<>>
    /\ linked_ids = 0
    /\ linked_done = 0
    /\ doc_id_found = FALSE
    /\ internal_exception = FALSE

\* No graph requested.
BuildIdle ==
    /\ collection_id = None
    /\ include = [docs |-> TRUE, code |-> TRUE, sheets |-> TRUE]
    /\ db_documents = <<>>
    /\ db_repositories = 0
    /\ collection = [documents |-> 0, repositories |-> 0]
    /\ kg_documents = <<>>
    /\ kg_repositories = 0
    /\ nodes = <<>>
    /\ kg_edges = <<>>
    /\ kpc = "start"
    /\ ki = 0
    /\ payload = <<>>

\* No batch requested.
BatchIdle ==
    /\ batch_documents = <<>>
    /\ batch_force = FALSE
    /\ batch_stats = NoStats
    /\ bi = 0
    /\ bpc = "idle"
    /\ attempts = [d \in EmbedDocs |-> 0]
    /\ raised_docs = {}

\* No distance converted.
NumberIdle ==
    /\ dist = 0
    /\ sims = <<>>

\* No table to convert.
TableIdle ==
    /\ csv_data = <<>>
    /\ max_rows = 0
    /\ reader_raises = FALSE
    /\ table = NoTable
    /\ mpc = "done"

\* No streaming call made.
TempIdle ==
    /\ calls_done = 0
    /\ call_path = "none"
    /\ fpc = "idle"
    /\ temp_file = 0
    /\ disk = {}
    /\ line_count = 0
    /\ ending = "none"

InitGraph ==
    /\ GraphInit
    /\ EmbedIdle
    /\ ChunkIdle
    /\ SearchIdle
    /\ StreamIdle
    /\ ProcessIdle
    /\ JobIdle
    /\ BuildIdle
    /\ BatchIdle
    /\ NumberIdle
    /\ TableIdle
    /\ TempIdle

SpecGraph == InitGraph /\ [][GraphNext]_vars

InitEmbed ==
    /\ EmbedInit
    /\ GraphIdle
    /\ ChunkIdle
    /\ SearchIdle
    /\ StreamIdle
    /\ ProcessIdle
    /\ JobIdle
    /\ BuildIdle
    /\ BatchIdle
    /\ NumberIdle
    /\ TableIdle
    /\ TempIdle

SpecEmbed == InitEmbed /\ [][EmbedNext]_vars

InitConcurrent ==
    /\ EmbedInit
    /\ GraphIdle
    /\ ChunkIdle
    /\ SearchIdle
    /\ StreamIdle
    /\ ProcessIdle
    /\ JobIdle
    /\ BuildIdle
    /\ BatchIdle
    /\ NumberIdle
    /\ TableIdle
    /\ TempIdle

SpecConcurrent == InitConcurrent /\ [][ConcurrentNext]_vars

InitChunk ==
    /\ ChunkInit
    /\ GraphIdle
    /\ EmbedIdle
    /\ SearchIdle
    /\ StreamIdle
    /\ ProcessIdle
    /\ JobIdle
    /\ BuildIdle
    /\ BatchIdle
    /\ NumberIdle
    /\ TableIdle
    /\ TempIdle

SpecChunk == InitChunk /\ [][ChunkNext]_vars

InitSearch ==
    /\ SearchInit
    /\ GraphIdle
    /\ EmbedIdle
    /\ ChunkIdle
    /\ StreamIdle
    /\ ProcessIdle
    /\ JobIdle
    /\ BuildIdle
    /\ BatchIdle
    /\ NumberIdle
    /\ TableIdle
    /\ TempIdle

SpecSearch == InitSearch /\ [][SearchNext]_vars

InitStream ==
    /\ StreamInit
    /\ GraphIdle
    /\ EmbedIdle
    /\ ChunkIdle
    /\ SearchIdle
    /\ ProcessIdle
    /\ JobIdle
    /\ BuildIdle
    /\ BatchIdle
    /\ NumberIdle
    /\ TableIdle
    /\ TempIdle

SpecStream == InitStream /\ [][StreamNext]_vars

InitProcess ==
    /\ ProcessInit
    /\ GraphIdle
    /\ EmbedIdle
    /\ ChunkIdle
    /\ SearchIdle
    /\ StreamIdle
    /\ JobIdle
    /\ BuildIdle
    /\ BatchIdle
    /\ NumberIdle
    /\ TableIdle
    /\ TempIdle

SpecProcess == InitProcess /\ [][ProcessNext]_vars

InitJobs ==
    /\ JobsInit
    /\ GraphIdle
    /\ EmbedIdle
    /\ ChunkIdle
    /\ SearchIdle
    /\ StreamIdle
    /\ ProcessIdle
    /\ BuildIdle
    /\ BatchIdle
    /\ NumberIdle
    /\ TableIdle
    /\ TempIdle

SpecJobs == InitJobs /\ [][JobsNext]_vars

\* The background task, once queued, is run, and each of its steps is taken;
\* nothing makes a read of a silent agent return.
SpecJobsFair == SpecJobs /\ WF_vars(JobsNext)

InitBuild ==
    /\ BuildInit
    /\ GraphIdle
    /\ EmbedIdle
    /\ ChunkIdle
    /\ SearchIdle
    /\ StreamIdle
    /\ ProcessIdle
    /\ JobIdle
    /\ BatchIdle
    /\ NumberIdle
    /\ TableIdle
    /\ TempIdle

SpecBuild == InitBuild /\ [][BuildNext]_vars

InitBatch ==
    /\ EmbedInit
    /\ BatchIdle
    /\ GraphIdle
    /\ ChunkIdle
    /\ SearchIdle
    /\ StreamIdle
    /\ ProcessIdle
    /\ JobIdle
    /\ BuildIdle
    /\ NumberIdle
    /\ TableIdle
    /\ TempIdle

SpecBatch == InitBatch /\ [][BatchNext]_vars

InitNumber ==
    /\ NumberInit
    /\ GraphIdle
    /\ EmbedIdle
    /\ ChunkIdle
    /\ SearchIdle
    /\ StreamIdle
    /\ ProcessIdle
    /\ JobIdle
    /\ BuildIdle
    /\ BatchIdle
    /\ TableIdle
    /\ TempIdle

SpecNumber == InitNumber /\ [][NumberNext]_vars

InitTable ==
    /\ TableInit
    /\ NumberIdle
    /\ GraphIdle
    /\ EmbedIdle
    /\ ChunkIdle
    /\ SearchIdle
    /\ StreamIdle
    /\ ProcessIdle
    /\ JobIdle
    /\ BuildIdle
    /\ BatchIdle
    /\ TempIdle

SpecTable == InitTable /\ [][TableNext]_vars

InitTemp ==
    /\ TempInit
    /\ TableIdle
    /\ NumberIdle
    /\ GraphIdle
    /\ EmbedIdle
    /\ ChunkIdle
    /\ SearchIdle
    /\ StreamIdle
    /\ ProcessIdle
    /\ JobIdle
    /\ BuildIdle
    /\ BatchIdle

SpecTemp == InitTemp /\ [][TempNext]_vars

(***************************************************************************)
(* Properties of _find_semantic_relationships.                             *)
(***************************************************************************)
EdgeIndexes == 1..Len(edges)

NodePair(e) == {e.source, e.target}

EdgesBetween(a, b) == {k \in EdgeIndexes : NodePair(edges[k]) = {a, b}}

CandidateNodes ==
    {DocNode(documents[k]) : k \in 1..Len(documents)}
    \cup {RepoNode(repositories[k]) : k \in 1..Len(repositories)}

\* The similarities of every match for `id` among the examined results.
RECURSIVE MatchSims(_, _)
MatchSims(res, id) ==
    IF res = <<>> THEN <<>>
    ELSE IF Head(res).id = id
         THEN <<Similarity(Head(res).distance)>> \o MatchSims(Tail(res), id)
         ELSE MatchSims(Tail(res), id)

\* The edges the iteration that has just ended has added.
EdgesOfIteration ==
    {k \in EdgeIndexes :
        /\ edges[k].source = SourceNode
        /\ edges[k].target[1] = TargetNode(gpc, 0)[1]}

\* C1: the edge list holds at most one related edge per unordered pair of
\* nodes, and a pair that the pass of A examined from A and the pass of B
\* examined from B (each among the other's examined results, a candidate, at
\* or above min_confidence) has exactly one edge.
C1_OneEdgePerPair ==
    /\ \A j, k \in EdgeIndexes : j # k => NodePair(edges[j]) # NodePair(edges[k])
    /\ \A p \in discovered :
          <<p[2], p[1]>> \in discovered => Cardinality(EdgesBetween(p[1], p[2])) = 1

\* Both directions of a pair have been examined and the call has returned.
C1_Witness ==
    /\ gpc = "done"
    /\ \E p \in discovered : <<p[2], p[1]>> \in discovered

\* C2: the confidence of every edge an iteration adds is the mean of the
\* similarities of all matches for the edge's target among the results of
\* the source's query, in each of the three passes.
C2_ConfidenceIsMeanOfAllMatches ==
    (gpc # "done" /\ phase = "iter_end") =>
        \A k \in EdgesOfIteration :
            edges[k].confidence = Mean(MatchSims(results, edges[k].target[2]))

\* C3: no edge has a confidence below min_confidence.
C3_ConfidenceAtLeastThreshold ==
    \A k \in EdgeIndexes :
        edges[k].confidence[1] >= min_confidence * edges[k].confidence[2]

\* An iteration has skipped a match below the threshold for a candidate and
\* has added an edge.
C3_Witness ==
    /\ gpc # "done"
    /\ phase = "iter_end"
    /\ EdgesOfIteration # {}
    /\ \E k \in 1..Len(results) :
          /\ Similarity(results[k].distance) < min_confidence
          /\ TargetNode(gpc, results[k].id) \in CandidateNodes \ {SourceNode}

\* C4: no edge joins a node to itself.
C4_NoSelfEdges == \A k \in EdgeIndexes : edges[k].source # edges[k].target

\* The entity's own chunk was the top match of its own query, at or above
\* the threshold.
C4_Witness ==
    /\ gpc \in {"doc_doc", "repo_repo"}
    /\ phase = "iter_end"
    /\ results # <<>>
    /\ results[1].id = Entity
    /\ Similarity(results[1].distance) >= min_confidence

\* C5: both endpoints of every edge are candidates of the call.
C5_EndpointsAreCandidates ==
    \A k \in EdgeIndexes :
        edges[k].source \in CandidateNodes /\ edges[k].target \in CandidateNodes

\* An iteration has examined a match, at or above the threshold, for an
\* indexed entity that is no candidate.
C5_Witness ==
    /\ gpc # "done"
    /\ phase = "iter_end"
    /\ \E k \in 1..Len(results) :
          /\ Similarity(results[k].distance) >= min_confidence
          /\ TargetNode(gpc, results[k].id) \notin CandidateNodes

\* C6: a failing lookup skips its entity only: nothing is raised, every
\* entity of every pass is queried, and every pair a successful iteration
\* has examined has its edge in the list.
C6_FailureSkipsOneEntity ==
    /\ ~raised
    /\ gpc = "done" => queries = 2 * Len(documents) + Len(repositories)
    /\ \A p \in discovered : EdgesBetween(p[1], p[2]) # {}

\* After an earlier iteration failed, a later one has added an edge.
C6_Witness ==
    /\ failed_any
    /\ gpc # "done"
    /\ phase = "iter_end"
    /\ EdgesOfIteration # {}

(***************************************************************************)
(* Properties of store_document_embeddings.                                *)
(***************************************************************************)
\* Caller p is in a call without force_regenerate that follows, with nothing
\* in between, a call without force_regenerate for the same document that
\* returned.
SecondCall(p) ==
    /\ epc[p] # "idle"
    /\ ~frame[p].force
    /\ last_call.outcome = "returned"
    /\ last_call.doc = frame[p].doc
    /\ ~last_call.force

\* C7: the second of two calls without force_regenerate for one document
\* returns the count the first returned and adds no vector to the index and
\* no row to the shadow table.
C7_SecondCallIsNoOp ==
    \A p \in Callers :
        SecondCall(p) =>
            /\ epc[p] # "raised"
            /\ VecsOf(vecs, frame[p].doc) = snapshot[p].vecs
            /\ rows[frame[p].doc] = snapshot[p].rows
            /\ epc[p] = "returned" => frame[p].ret = last_call.ret

\* A second call has returned the count of an indexed document.
C7_Witness ==
    \E p \in Callers :
        /\ SecondCall(p)
        /\ epc[p] = "returned"
        /\ frame[p].ret > 0
        /\ snapshot[p].vecs # {}

\* The entries a fresh indexing of document d's present content consists of.
FreshVecs(d) == {[doc |-> d, idx |-> i, ver |-> version[d]] : i \in 0..(content[d] - 1)}

\* C8: when a call with force_regenerate returns for a document indexed
\* before, the index holds for it exactly the entries of the new chunks and
\* none of the old ones.
C8_ForcedReindexReplaces ==
    \A p \in Callers :
        (epc[p] = "returned" /\ frame[p].force /\ snapshot[p].vecs # {}) =>
            VecsOf(vecs, frame[p].doc) = FreshVecs(frame[p].doc)

\* C29: whenever a call has returned or raised, the Embedding table holds as
\* many rows for the call's document as the index holds entries for it.
C29_RowsMatchIndex ==
    \A p \in Callers :
        epc[p] \in {"returned", "raised"} =>
            rows[frame[p].doc] = Cardinality(VecsOf(vecs, frame[p].doc))

\* A run of worker p has returned through the commit.
Committed(p) ==
    /\ epc[p] = "returned"
    /\ frame[p].chunks > 0
    /\ frame[p].ret = frame[p].chunks

\* The step is one of a run for document d.
StepOfRunFor(d) ==
    \E p \in Workers :
        /\ frame[p].doc = d
        /\ epc'[p] # epc[p] \/ frame'[p] # frame[p]

\* C21: with two runs at the same time for two different documents, a run
\* that returns through the commit leaves its document with exactly the
\* entries of its own chunks, and every step that changes the entries or the
\* rows of a document is a step of the run for that document.
C21_ConcurrentRunsIsolated ==
    /\ [](\A p \in Workers :
            Committed(p) => VecsOf(vecs, frame[p].doc) = FreshVecs(frame[p].doc))
    /\ [][\A d \in EmbedDocs :
            (\/ VecsOf(vecs', d) # VecsOf(vecs, d)
             \/ rows'[d] # rows[d]
             \/ committed'[d] # committed[d]) => StepOfRunFor(d)]_vars

\* One run has returned through the commit of a forced regeneration while the
\* other run, forced too, has added its chunk and not yet committed.
C21_Witness ==
    /\ Committed("q1")
    /\ frame["q1"].force
    /\ snapshot["q1"].vecs # {}
    /\ frame["q1"].ret = 2
    /\ epc["q2"] = "store"
    /\ frame["q2"].force
    /\ frame["q2"].i = 1

(***************************************************************************)
(* Properties of chunk_text.                                               *)
(***************************************************************************)
\* The window start has moved forward in the round that ended last.
Progressed == cuts # <<>> => start > cuts[Len(cuts)][1]

\* C9: with 0 <= overlap < chunk_size the window start strictly increases in
\* every round, also one that cuts at a sentence terminator, so the loop ends
\* within len(text) rounds.
C9_ProgressBelowChunkSize ==
    overlap < chunk_size => (Progressed /\ Len(cuts) <= Len(text))

\* C10: with overlap >= chunk_size the loop is never entered.
C10_MisconfigurationNeverLoops == overlap >= chunk_size => cuts = <<>>

\* The range [lo, hi) of the text that the chunk of round k holds after
\* strip(), in Python's indexes.
ChunkRange(k) ==
    LET st == cuts[k][1]
        from == IF st < 0 THEN Max(Len(text) + st, 0) ELSE Min(st, Len(text))
        window == PySlice(text, st, cuts[k][2])
        lead == Len(window) - Len(LStrip(window))
    IN  <<from + lead, from + lead + Len(chunks[k])>>

\* The rounds whose chunk is returned.
ReturnedRounds == {k \in 1..Len(chunks) : Len(chunks[k]) > 0}

\* Character i of the text lies in a returned chunk.
Covered(i) ==
    \E k \in ReturnedRounds : ChunkRange(k)[1] <= i /\ i < ChunkRange(k)[2]

CoverageCase == cpc = "done" /\ text # <<>> /\ overlap < chunk_size

\* C11, as claimed: for a non-empty text and overlap < chunk_size the ranges
\* of the returned chunks start at 0, reach the end of the text and leave no
\* span longer than overlap characters outside every chunk.
C11_ChunksCoverText ==
    CoverageCase =>
        /\ ReturnedRounds # {}
        /\ \E k \in ReturnedRounds : ChunkRange(k)[1] = 0
        /\ \E k \in ReturnedRounds : ChunkRange(k)[2] = Len(text)
        /\ \A i \in 0..(Len(text) - 1 - overlap) :
              \E j \in i..(i + overlap) : Covered(j)

\* C11, amended: when a call for a non-empty text with overlap < chunk_size
\* returns, the windows start at 0, reach the end of the text and leave no
\* gap between one and the next, and every character outside every returned
\* chunk is whitespace that strip() removed.
C11_WindowsCoverText ==
    CoverageCase =>
        /\ cuts[1][1] = 0
        /\ cuts[Len(cuts)][2] >= Len(text)
        /\ \A k \in 1..(Len(cuts) - 1) :
              cuts[k + 1][1] >= 0 /\ cuts[k + 1][1] <= cuts[k][2]
        /\ \A i \in 0..(Len(text) - 1) : text[i + 1] # " " => Covered(i)

\* A call with a positive overlap below chunk_size has returned two chunks
\* or more and has left a space of the text outside every one of them.
C11_Witness ==
    /\ CoverageCase
    /\ overlap > 0
    /\ Cardinality(ReturnedRounds) >= 2
    /\ \E i \in 0..(Len(text) - 1) : ~Covered(i)

\* The indexes of the text that hold a sentence terminator: '.', '?' or '!'
\* with a space after it.
Terminators ==
    {p \in 0..(Len(text) - 2) :
        text[p + 1] \in {".", "?", "!"} /\ text[p + 2] = " "}

\* The length of the sentence that index e of the text lies in: from the
\* character after the space of the terminator before e, up to and with the
\* next terminator.
SentenceLength(e) ==
    LET before == {p \in Terminators : p + 1 < e}
        after == {p \in Terminators : p >= e}
        first == IF before = {} THEN 0
                 ELSE (CHOOSE p \in before : \A q \in before : q <= p) + 2
        last == IF after = {} THEN Len(text) - 1
                ELSE CHOOSE p \in after : \A q \in after : p <= q
    IN  last - first + 1

\* The rounds whose window starts inside the text and ends before its end.
InnerRounds ==
    {k \in 1..Len(cuts) : cuts[k][1] >= 0 /\ cuts[k][2] < Len(text)}

\* C12, as claimed: a chunk that ends before the end of the text ends right
\* after a sentence terminator or after its space, unless the sentence it
\* ends in is longer than chunk_size.
C12_NeverSplitsSentence ==
    \A k \in InnerRounds :
        \/ cuts[k][2] - 1 \in Terminators
        \/ cuts[k][2] - 2 \in Terminators
        \/ SentenceLength(cuts[k][2]) > chunk_size

\* The terminators of the window of round k that lie beyond half of
\* chunk_size, as offsets into the window.
LateTerminators(k) ==
    {p - cuts[k][1] : p \in {q \in Terminators :
        /\ q >= cuts[k][1]
        /\ q + 1 < cuts[k][1] + chunk_size
        /\ 2 * (q - cuts[k][1]) > chunk_size}}

\* C12, amended: a chunk whose window of chunk_size characters ends before
\* the end of the text ends right after the last sentence terminator of the
\* window when that terminator lies beyond half of chunk_size, and at the
\* hard boundary otherwise: a terminator in the first half of the window is
\* not honoured.
C12_CutsAtLateTerminator ==
    \A k \in 1..Len(cuts) :
        (cuts[k][1] >= 0 /\ cuts[k][1] + chunk_size < Len(text)) =>
            IF LateTerminators(k) = {}
            THEN cuts[k][2] = cuts[k][1] + chunk_size
            ELSE /\ cuts[k][2] - cuts[k][1] - 1 \in LateTerminators(k)
                 /\ \A p \in LateTerminators(k) : p <= cuts[k][2] - cuts[k][1] - 1

\* A round has cut at the hard boundary, inside a sentence no longer than
\* chunk_size, though its window holds a terminator in its first half.
C12_Witness ==
    \E k \in InnerRounds :
        /\ cuts[k][2] = cuts[k][1] + chunk_size
        /\ cuts[k][2] - 1 \notin Terminators
        /\ cuts[k][2] - 2 \notin Terminators
        /\ SentenceLength(cuts[k][2]) <= chunk_size
        /\ \E p \in Terminators :
              /\ p >= cuts[k][1]
              /\ p + 1 < cuts[k][2]
              /\ 2 * (p - cuts[k][1]) <= chunk_size

(***************************************************************************)
(* Properties of semantic_search.                                          *)
(***************************************************************************)
\* The ranks of the collected results, in order.
KeptRanks == [k \in 1..Len(search_results) |-> search_results[k].rank]

Kept(k) == \E j \in 1..Len(search_results) : search_results[j].rank = k

\* The ranks of the raw results that pass the filters, in the index's order.
RECURSIVE PassingFrom(_)
PassingFrom(k) ==
    IF k > Len(raw_results) THEN <<>>
    ELSE IF ScanOutcome(filters, raw_results[k]) = "keep"
         THEN <<k>> \o PassingFrom(k + 1)
         ELSE PassingFrom(k + 1)

\* C13: when the generation backend raises, the response is a 200 with the
\* collected results and ai_answer null.
C13_RagFailureDegrades ==
    rag_call = "raised" =>
        /\ status = 200
        /\ failure = None
        /\ ai_answer = None
        /\ search_results # <<>>

\* The backend raised in a request that had collected two results.
C13_Witness ==
    /\ rag_call = "raised"
    /\ spc = "responded"
    /\ Len(search_results) >= 2

\* C14: the results of a response are at most limit, and are the first limit
\* raw results that pass the filters, in the index's order; the loop stops
\* at the raw result that fills the limit.
C14_FirstLimitPassing ==
    (spc # "scan" /\ status # 500) =>
        /\ Len(search_results) <= limit
        /\ KeptRanks = SubSeq(PassingFrom(1), 1, Min(limit, Len(PassingFrom(1))))
        /\ Len(search_results) = limit => si = search_results[limit].rank

\* The loop has stopped at the limit, after dropping a result, with raw
\* results left that pass the filters.
C14_Witness ==
    /\ spc = "responded"
    /\ status = 200
    /\ Len(search_results) = limit
    /\ si > limit
    /\ Len(PassingFrom(1)) > limit

\* The metadata lacks the field the requested filter needs.
Lacks(f, m) ==
    \/ f.doc_type # None /\ m.doc_type = None
    \/ f.author # None /\ m.author = None
    \/ (f.date_from # NoTime \/ f.date_to # NoTime) /\ m.created_at = NoTime
    \/ f.tags # None /\ m.tags = None

\* Every requested filter whose field the metadata has lets the result pass.
PassesPresent(f, m) ==
    /\ m.doc_type # None => ~DocTypeDrops(f, m)
    /\ m.author # None => ~AuthorDrops(f, m)
    /\ DateOutcome(f, m) = "keep"
    /\ m.tags # None => ~TagsDrop(f, m)

\* C15: a scanned result that lacks the field of a requested filter and
\* passes the filters whose fields it has is kept, and a kept result
\* without a distance has similarity 0.
C15_MissingFieldSkipsFilter ==
    status # 500 =>
        /\ \A k \in 1..si :
              (Lacks(filters, raw_results[k]) /\ PassesPresent(filters, raw_results[k]))
                  => Kept(k)
        /\ \A j \in 1..Len(search_results) :
              raw_results[search_results[j].rank].distance = NoDistance
                  => search_results[j].similarity_score = 0

DateFilterOnly ==
    /\ filters.date_from # NoTime \/ filters.date_to # NoTime
    /\ filters.doc_type = None
    /\ filters.author = None
    /\ filters.tags = None

\* The timestamp is well-formed and lies outside the requested range.
OutsideRange(f, m) ==
    /\ m.created_at.form \in {"naive", "aware"}
    /\ \/ f.date_from # NoTime /\ m.created_at.t < f.date_from.t
       \/ f.date_to # NoTime /\ m.created_at.t > f.date_to.t

\* C16: with a date range requested, the request does not fail on a
\* timestamp, a result with a malformed created_at is kept, and only results
\* with a well-formed created_at outside the range are dropped.
C16_DateFilterNeverFails ==
    DateFilterOnly =>
        /\ failure # "TypeError"
        /\ \A k \in 1..si :
              ~Kept(k) => OutsideRange(filters, raw_results[k])

(***************************************************************************)
(* Properties of the streamed answers and reviews.                         *)
(***************************************************************************)
TerminalEvents == {"done", "complete", "error"}

TerminalAt == {k \in 1..Len(events) : events[k] \in TerminalEvents}

ContentAt == {k \in 1..Len(events) : events[k] = "content"}

C18_DisconnectStopsBackend ==
    ppc = "closed" => backend \notin {"running", "stalled", "hung_after_eof"}

\* C19: a call whose backend has gone silent has ended with an error by the
\* time MaxWait has passed.
C19_SilentBackendTimesOut ==
    (backend \in {"stalled", "hung_after_eof"} /\ ppc # "closed" /\ waited >= MaxWait) =>
        (ppc = "ended" /\ outcome = "error")

(***************************************************************************)
(* Properties of the embedding model of one process.                       *)
(***************************************************************************)
\* C20: over the requests one process serves, the embedding model is loaded
\* at most once and every request that uses an instance uses the same one.
C20_LoadedOnceAndShared ==
    /\ loads <= 1
    /\ \A j, k \in 1..Len(served) :
          (served[j].instance # 0 /\ served[k].instance # 0)
              => served[j].instance = served[k].instance

(***************************************************************************)
(* Properties of the background jobs.                                      *)
(***************************************************************************)
\* C22: the endpoint returns the handle in status pending before the task
\* has changed the job; every queued job reaches a terminal status with
\* completed_at set; a failed job carries an error message.
C22_JobsReachTerminalStatus ==
    /\ [](jpc = "queued" => (response = "pending" /\ job_db.status = "pending"))
    /\ (jpc = "queued") ~> (job_db.status \in Terminal /\ job_db.completed_at)
    /\ [](job_db.status = "failed" => job_db.error_message # None)

\* The import task has returned from import_from_url without entering its
\* except branch.
ImportFinished ==
    /\ job_kind = "import"
    /\ jpc = "ended"
    /\ ~internal_exception

\* The final status says what the counters say.
StatusMatchesCounters(j) ==
    /\ (j.status = "completed") <=> (j.failed_docs = 0)
    /\ (j.status = "partial") <=> (j.failed_docs >= 1 /\ j.processed_docs >= 1)
    /\ (j.status = "failed") <=> (j.processed_docs = 0)

\* C28 as stated: the committed counters never exceed total_docs, and a job
\* that finished without an internal exception has processed_docs +
\* failed_docs = total_docs and a status that matches the counters.
C28_CountersAccountForAllDocs ==
    /\ job_db.processed_docs + job_db.failed_docs <= job_db.total_docs
    /\ ImportFinished =>
          /\ job_db.processed_docs + job_db.failed_docs = job_db.total_docs
          /\ StatusMatchesCounters(job_db)

\* C28, amended: the same for every job whose URL yielded a document id; a
\* job whose URL yielded none ends failed with both counters 0 and
\* total_docs 1.
C28_CountersAccountAfterDocId ==
    /\ job_db.processed_docs + job_db.failed_docs <= job_db.total_docs
    /\ (ImportFinished /\ doc_id_found) =>
          /\ job_db.processed_docs + job_db.failed_docs = job_db.total_docs
          /\ StatusMatchesCounters(job_db)
    /\ (ImportFinished /\ ~doc_id_found) =>
          /\ job_db.status = "failed"
          /\ job_db.processed_docs = 0
          /\ job_db.failed_docs = 0
          /\ job_db.total_docs = 1

\* An import with linked documents has finished partial: one linked document
\* failed, another was imported.
C28_Witness ==
    /\ ImportFinished
    /\ job_db.status = "partial"
    /\ job_db.total_docs = 3
    /\ job_db.failed_docs = 1
    /\ job_db.processed_docs = 2

(***************************************************************************)
(* Properties of build_knowledge_graph.                                    *)
(***************************************************************************)
\* C24: every returned payload has the parts nodes, edges and stats, and
\* stats.total_nodes and stats.total_edges are the lengths of nodes and
\* edges.
C24_PayloadHasThreeParts ==
    kpc = "returned" =>
        /\ {"nodes", "edges", "stats"} \subseteq DOMAIN payload
        /\ payload.stats.total_nodes = Len(payload.nodes)
        /\ payload.stats.total_edges = Len(payload.edges)

(***************************************************************************)
(* Properties of batch_process_documents.                                  *)
(***************************************************************************)
Selected == {batch_documents[i] : i \in 1..Len(batch_documents)}

\* C23: when the batch returns, every selected document has been attempted
\* exactly once (and no other document), each document whose call raised is
\* counted as failed, and processed + skipped + failed = total.
C23_BatchAttemptsEveryDocument ==
    bpc = "returned" =>
        /\ \A d \in EmbedDocs : attempts[d] = (IF d \in Selected THEN 1 ELSE 0)
        /\ batch_stats.failed = Cardinality(raised_docs)
        /\ batch_stats.processed + batch_stats.skipped + batch_stats.failed
              = batch_stats.total

\* A batch of two documents has returned after the call for its first
\* document raised and the call for its second returned chunks.
C23_Witness ==
    /\ bpc = "returned"
    /\ Len(batch_documents) = 2
    /\ raised_docs = {batch_documents[1]}
    /\ batch_stats.failed = 1
    /\ batch_stats.processed = 1

(***************************************************************************)
(* Properties of the similarity of a distance.                             *)
(***************************************************************************)
\* C25: for every distance from 0 on, beyond 2 included, the similarity
\* each component computes, and the score it reports, lies between 0 and 1.
C25_SimilarityWithinUnitRange ==
    \A c \in DOMAIN sims :
        /\ 0 <= sims[c].similarity /\ sims[c].similarity <= One
        /\ 0 <= sims[c].reported /\ sims[c].reported <= One

\* The three components have converted a distance beyond 2 to 0.
C25_Witness ==
    /\ dist > Two
    /\ DOMAIN sims = Components
    /\ \A c \in Components : sims[c].similarity = 0

\* C27 as stated: among the distances the index can return, dist included,
\* there is one strictly between 0 and 2 for which the formula of search and
\* the formula of relationship discovery give different similarities.
C27_FormulasDiffer ==
    \E d \in FloatDistances \cup {dist} :
        /\ 0 < d /\ d < Two
        /\ SearchSimilarity(d) # RelationSimilarity(d)

\* C27, amended: for every distance the formula of search and the formula
\* of relationship discovery give the same similarity.
C27_FormulasAgree ==
    {"search", "relation"} \subseteq DOMAIN sims =>
        sims["search"].similarity = sims["relation"].similarity

\* Both formulas have been applied to a distance strictly between 0 and 2
\* for which the subtraction of each of them rounds, and the similarity lies
\* strictly between 0 and 1.
C27_Witness ==
    /\ 0 < dist /\ dist < Two
    /\ {"search", "relation"} \subseteq DOMAIN sims
    /\ Two - dist # FSub(Two, dist)
    /\ One - FHalf(dist) # FSub(One, FHalf(dist))
    /\ 0 < sims["search"].similarity /\ sims["search"].similarity < One


(***************************************************************************)
(* Properties of csv_to_markdown_table.                                    *)
(***************************************************************************)
\* The segments of a rendered line between its '|' characters.
RECURSIVE SplitPipes(_, _, _)
SplitPipes(line, cur, acc) ==
    IF line = <<>> THEN Append(acc, cur)
    ELSE IF Head(line) = "|"
         THEN SplitPipes(Tail(line), <<>>, Append(acc, cur))
         ELSE SplitPipes(Tail(line), Append(cur, Head(line)), acc)

RECURSIVE TrimLeft(_)
TrimLeft(t) == IF t # <<>> /\ Head(t) = " " THEN TrimLeft(Tail(t)) ELSE t

RECURSIVE TrimRight(_)
TrimRight(t) ==
    IF t # <<>> /\ t[Len(t)] = " " THEN TrimRight(SubSeq(t, 1, Len(t) - 1))
    ELSE t

\* The cells a markdown reader sees in a table line: what lies between
\* the leading and the trailing '|', split at every '|' and trimmed.
MarkdownCells(line) ==
    LET parts == SplitPipes(line, <<>>, <<>>)
    IN  [i \in 1..(Len(parts) - 2) |-> TrimLeft(TrimRight(parts[i + 1]))]

\* Row r of the CSV with exactly n cells: cut, or filled with empty cells.
FitRow(r, n) == [i \in 1..n |-> IF i <= Len(r) THEN r[i] ELSE <<>>]

\* C26: for a CSV the reader reads, the table has the first row as its
\* header line, then a line of one '---' per header cell, then one line per
\* following row, in order, with exactly as many cells as the header (cut or
\* filled with empty cells), at most max_rows rows in all; the notice
\* 'Table truncated to <max_rows> rows' is there exactly when the CSV has
\* more than max_rows rows.
C26_TableRendersCsv ==
    (mpc = "done" /\ ~reader_raises) =>
        /\ (table.notice # <<>>) <=> (Len(csv_data) > max_rows)
        /\ table.notice # <<>> => table.notice = <<max_rows>>
        /\ csv_data # <<>> =>
             LET header == csv_data[1]
                 shown == Max(1, Min(max_rows, Len(csv_data)))
             IN  /\ Len(table.lines) = shown + 1
                 /\ MarkdownCells(table.lines[1]) = header
                 /\ MarkdownCells(table.lines[2])
                        = [i \in 1..Len(header) |-> <<"-", "-", "-">>]
                 /\ \A r \in 2..shown :
                        MarkdownCells(table.lines[r + 1])
                            = FitRow(csv_data[r], Len(header))

\* C26 where the code keeps it: max_rows at least 1, a first row with at
\* least one cell, and no '|' in any cell that is shown.
NoPipe(cell) == \A i \in 1..Len(cell) : cell[i] # "|"

PlainTable ==
    /\ max_rows >= 1
    /\ csv_data # <<>>
    /\ csv_data[1] # <<>>
    /\ \A r \in 1..Min(max_rows, Len(csv_data)) :
           \A i \in 1..Min(Len(csv_data[r]), Len(csv_data[1])) :
               NoPipe(csv_data[r][i])

C26_PlainTableRendersCsv ==
    PlainTable => C26_TableRendersCsv


(***************************************************************************)
(* Properties of the temporary files of streamed generations.              *)
(***************************************************************************)
\* C30: when a streaming call has ended, by exit code 0, by another exit
\* code or because the subprocess could not be started, the temporary file
\* it created is no longer there.
C30_TempFileDeletedAtEnd ==
    (fpc = "ended" /\ ending \in {"success", "exit_fail", "not_started"})
        => temp_file \notin disk

\* C30 without the case the code misses: a stream whose subprocess was
\* started leaves no file.
C30_StartedStreamLeavesNoFile ==
    (fpc = "ended" /\ ending \in {"success", "exit_fail", "closed"})
        => temp_file \notin disk

====
